---- MODULE Spec2Model ----
(***************************************************************************)
(* Job lifecycle core of the AI Factory CLI: the Slurm node resolver       *)
(* (common/slurm_utils.py), the JSON job registry (common/job_tracker.py), *)
(* the service orchestrator (deployment/service_manager.py) with its       *)
(* health checks (deployment/health_checks), the monitor manager and its   *)
(* monitor threads (monitoring) and the benchmark manager (benchmarking).  *)
(*                                                                         *)
(* Python's None is the string "None"; an optional value (the result of    *)
(* dict.get) is the empty set or a singleton.  Time is wall-clock seconds. *)
(***************************************************************************)
EXTENDS Integers, Sequences, FiniteSets, TLC

VARIABLES
    now,        \* time.time(), in seconds
    rs,         \* the frame of the running get_job_node call
    h,          \* history of that call: what the scheduler answered, and when
    file,       \* the registry's backing file (.aif_jobs.json)
    ss,         \* the frame of the running start_service call
    sched,      \* the job ids whose cancellation the scheduler accepted
    trail,      \* the latest operations on the registry, newest first, with
                \* the file each found and what it returned
    ops,        \* number of calls made so far by the direct client / the other terminals
    budget,     \* seconds by which the queries and sleeps of one get_job_node
                \* call may in total run long
    procs,      \* the frames of the registry calls of the processes sharing the file
    reg,        \* what has been true of the registry file so far (not program state)
    mon,        \* the monitor manager, its monitor thread and the benchmark run
    probe,      \* the frame of the running health check (test_ollama, ...)
    tasks       \* the monitors and benchmarks launched, their ids and result files

vars ==
    <<now, rs, h, file, ss, sched, trail, ops, budget, procs, reg, mon, probe, tasks>>

None == "None"

----------------------------------------------------------------------------
(* Bounds of the model.                                                    *)

\* get_job_node(job_id, max_wait_time, check_interval) is explored for
\* max_wait_time in 0..MaxWait and check_interval in 1..MaxInterval, and
\* for the defaults.
MaxWait == 4
MaxInterval == 2
\* Seconds by which the status queries and sleeps of one get_job_node call
\* may, in total, take longer than nothing / than check_interval.
MaxDrift == 2
\* Registry API calls a direct client makes in one behaviour.
MaxOps == 3
\* stop_service calls made while / after one start_service call runs.
MaxStops == 1

\* Defaults of get_job_node.
DefaultMaxWait == 300
DefaultInterval == 5

JobIds == {"101", "102"}
Nodes == {"node07", "node08"}

----------------------------------------------------------------------------
(* Scheduler gateway: `scontrol show job <id>`.                            *)

\* JobState values scontrol may print; None: the output has no JobState=.
JobStates == {"PENDING", "CONFIGURING", "RUNNING", "COMPLETED", "CANCELLED", None}
\* NodeList values; None: no NodeList= in the output; "": `NodeList=`.
NodeLists == Nodes \cup {"(null)", "", None}

\* One status query: the command fails (non-zero exit, or scontrol is not
\* installed), or job_info is parsed out of its output.
StatusResponses ==
    {[ok |-> FALSE, JobState |-> None, NodeList |-> None]}
    \cup [ok : {TRUE}, JobState : JobStates, NodeList : NodeLists]

\* Python truthiness of a string-or-None.
Truthy(s) == s # None /\ s # ""

\* Faulty variants of poll_outcome: NodeList read under a wrong key; the
\* "(null)" test left out; the terminal-state branch left out; a failed
\* query retried.
poll_outcome_wrong_key(r) ==
    IF ~r.ok THEN [ret |-> TRUE, value |-> None]
    ELSE IF r.JobState = "RUNNING"
         THEN [ret |-> FALSE, value |-> None]
         ELSE IF r.JobState \notin {"PENDING", "CONFIGURING"}
              THEN [ret |-> TRUE, value |-> None]
              ELSE [ret |-> FALSE, value |-> None]

poll_outcome_placeholder(r) ==
    IF ~r.ok THEN [ret |-> TRUE, value |-> None]
    ELSE IF r.JobState = "RUNNING"
         THEN IF Truthy(r.NodeList)
              THEN [ret |-> TRUE, value |-> r.NodeList]
              ELSE [ret |-> FALSE, value |-> None]
         ELSE IF r.JobState \notin {"PENDING", "CONFIGURING"}
              THEN [ret |-> TRUE, value |-> None]
              ELSE [ret |-> FALSE, value |-> None]

poll_outcome_no_terminal(r) ==
    IF ~r.ok THEN [ret |-> TRUE, value |-> None]
    ELSE IF r.JobState = "RUNNING" /\ Truthy(r.NodeList) /\ r.NodeList # "(null)"
         THEN [ret |-> TRUE, value |-> r.NodeList]
         ELSE [ret |-> FALSE, value |-> None]

poll_outcome_retry(r) ==
    IF ~r.ok THEN [ret |-> FALSE, value |-> None]
    ELSE IF r.JobState = "RUNNING"
         THEN IF Truthy(r.NodeList) /\ r.NodeList # "(null)"
              THEN [ret |-> TRUE, value |-> r.NodeList]
              ELSE [ret |-> FALSE, value |-> None]
         ELSE IF r.JobState \notin {"PENDING", "CONFIGURING"}
              THEN [ret |-> TRUE, value |-> None]
              ELSE [ret |-> FALSE, value |-> None]

\* The body of one loop iteration of get_job_node after the query returned:
\* ret = TRUE: return `value`; ret = FALSE: sleep and loop.
poll_outcome(r) ==
    IF ~r.ok THEN [ret |-> TRUE, value |-> None]
    ELSE IF r.JobState = "RUNNING"
         THEN IF Truthy(r.NodeList) /\ r.NodeList # "(null)"
              THEN [ret |-> TRUE, value |-> r.NodeList]
              ELSE [ret |-> FALSE, value |-> None]
         ELSE IF r.JobState \notin {"PENDING", "CONFIGURING"}
              THEN [ret |-> TRUE, value |-> None]
              ELSE [ret |-> FALSE, value |-> None]

\* Faulty variant of within_budget: the last instant of the budget counts.
within_budget_inclusive(elapsed, max_wait_time, check_interval) ==
    elapsed <= max_wait_time

\* Faulty variant of within_budget: the loop never gives up.
within_budget_unbounded(elapsed, max_wait_time, check_interval) == TRUE

\* Faulty variant of within_budget: the budget is counted from the first sleep.
within_budget_late(elapsed, max_wait_time, check_interval) ==
    elapsed < max_wait_time + 2 * check_interval

\* Faulty variant of within_budget: the loop gives up one interval early.
within_budget_early(elapsed, max_wait_time, check_interval) ==
    elapsed < max_wait_time - check_interval

\* The loop condition of get_job_node.
within_budget(elapsed, max_wait_time, check_interval) ==
    elapsed < max_wait_time

----------------------------------------------------------------------------
(* History of a get_job_node call (not program state).                     *)

Classify(r) ==
    IF ~r.ok THEN "failed"
    ELSE IF r.JobState = "PENDING" THEN "pending"
    ELSE IF r.JobState = "CONFIGURING" THEN "configuring"
    ELSE IF r.JobState = "RUNNING"
         THEN IF r.NodeList \in Nodes THEN "running" ELSE "placeholder"
    ELSE "terminal"

\* Summary of a sequence of responses that all led to another iteration.
Extend(before, c) ==
    IF before = "pending" /\ c \in {"none", "pending"} THEN "pending"
    ELSE IF before \in {"pending", "waiting"} /\ c \in {"none", "pending", "configuring"}
         THEN "waiting"
    ELSE "other"

NoHistory ==
    [n |-> 0,              \* responses the scheduler has given
     last |-> "none",      \* class of the latest response
     lastNode |-> None,    \* its NodeList, when it was RUNNING on a node
     before |-> "pending", \* the responses before the latest: "pending" (all
                           \* PENDING), "waiting" (all PENDING or CONFIGURING), "other"
     lastIter |-> 0,       \* seconds the latest query and the sleep after it took
     drift |-> 0]          \* seconds used of the query-time / oversleep allowance

Record(r, d) ==
    [n |-> h.n + 1,
     last |-> Classify(r),
     lastNode |-> IF Classify(r) = "running" THEN r.NodeList ELSE None,
     before |-> Extend(h.before, h.last),
     lastIter |-> d,
     drift |-> h.drift + d]

AllPending == Extend(h.before, h.last) = "pending"

----------------------------------------------------------------------------
(* get_job_node.                                                           *)

IdleResolver ==
    [pc |-> "idle", job_id |-> None, max_wait_time |-> 0, check_interval |-> 1,
     start_time |-> 0, queries |-> 0, sleeps |-> 0, result |-> None,
     returned_at |-> 0, timeout |-> FALSE]

\* No start_service call yet.
IdleStart ==
    [pc |-> "idle", service_name |-> None, job_id |-> None, node |-> None,
     health |-> None, ret |-> None,
     created |-> {},    \* the record as add_job stored it
     wrote |-> {},      \* the statuses this call has written since
     events |-> <<>>]   \* what this call has done, in order

\* Entry: start_time = time.time().
get_job_node(job_id, max_wait_time, check_interval) ==
    /\ rs' = [IdleResolver EXCEPT !.pc = "loop", !.job_id = job_id,
                                  !.max_wait_time = max_wait_time,
                                  !.check_interval = check_interval,
                                  !.start_time = now]
    /\ h' = NoHistory

\* One pass of the loop: the test passes, scontrol runs for d seconds and
\* its output decides between returning and sleeping.
PollQuery ==
    /\ rs.pc = "loop"
    /\ within_budget(now - rs.start_time, rs.max_wait_time, rs.check_interval)
    /\ \E r \in StatusResponses, d \in 0..(budget - h.drift) :
         LET o == poll_outcome(r) IN
         /\ now' = now + d
         /\ h' = Record(r, d)
         /\ rs' = [rs EXCEPT !.queries = @ + 1,
                             !.pc = IF o.ret THEN "done" ELSE "sleep",
                             !.result = o.value,
                             !.returned_at = now + d]

\* time.sleep(check_interval): at least check_interval seconds pass.
PollSleep ==
    /\ rs.pc = "sleep"
    /\ \E d \in 0..(budget - h.drift) :
         /\ now' = now + rs.check_interval + d
         /\ h' = [h EXCEPT !.lastIter = @ + rs.check_interval + d, !.drift = @ + d]
    /\ rs' = [rs EXCEPT !.pc = "loop", !.sleeps = @ + 1]

\* The loop test fails: "Timeout waiting for job", return None.
PollTimeout ==
    /\ rs.pc = "loop"
    /\ ~within_budget(now - rs.start_time, rs.max_wait_time, rs.check_interval)
    /\ rs' = [rs EXCEPT !.pc = "done", !.result = None, !.returned_at = now,
                        !.timeout = TRUE]
    /\ UNCHANGED <<now, h>>

Poll == PollQuery \/ PollSleep \/ PollTimeout

\* The terminals (processes) that share the registry file.
Procs == {"p1", "p2"}

\* No JobTracker call yet in a process.
IdleProc ==
    [pc |-> "idle",
     call |-> [op |-> None],
     db |-> <<>>,        \* `db = self._load_db()`
     data |-> <<>>,      \* the argument of _save_db
     ret |-> None,       \* what a reading call returned
     raced |-> FALSE,    \* another mutation was under way during this one
     stores |-> {}]      \* the complete stores there were when it read the file

IdleProcs == [p \in Procs |-> IdleProc]

NoRegistryHistory ==
    [known |-> {},       \* job ids the scheduler has handed out
     hadNode |-> {},     \* job ids whose stored record has had a node
     persisted |-> {},   \* job ids whose add_job has saved its record
     deleted |-> FALSE,  \* remove_job or clear_all has been called
     raced |-> FALSE,    \* two mutations have been under way at once
     committed |-> <<>>] \* the store of the latest save that completed

\* No monitor thread.
NoThread ==
    [pc |-> "none",
     endpoint |-> None, interval |-> 0, duration |-> 0, output_file |-> None,
     start_time |-> 0,
     data |-> <<>>,       \* self.data
     gpu |-> None,        \* whether nvidia-smi answers on this host
     lag |-> 0,           \* seconds the collections and sleeps have run long
     died |-> None]       \* the exception that ended start(), if one did

\* No run_benchmark call.
IdleBench ==
    [pc |-> "idle", benchmark_name |-> None, job_id |-> None, node |-> None,
     invoked |-> FALSE,   \* benchmark_module.run was called
     log_file |-> None]   \* what the payload wrote

\* A MonitorManager that has started nothing: no active monitors, no
\* thread, no output file; and no run_benchmark call.
IdleMonitors ==
    [active_monitors |-> {}, ret |-> None, thread |-> NoThread, files |-> <<>>,
     bench |-> IdleBench]

\* No health check is running.
IdleProbe ==
    [pc |-> "idle", health_check |-> None, max_wait_time |-> 0, check_interval |-> 0,
     start_time |-> 0, api_accessible |-> FALSE, answer |-> None, ret |-> None,
     raised |-> None]

\* Nothing has been launched: no task, no active_monitors entry, no result
\* file.
NoTasks == [launched |-> <<>>, active_monitors |-> <<>>, files |-> <<>>]

----------------------------------------------------------------------------
(* JobTracker: the registry, one JSON file read and written whole.         *)

\* The file holds a JSON object (kind "ok", db its content), does not
\* parse ("corrupt") or does not exist ("missing").
EmptyDb == <<>>
OkFile(db) == [kind |-> "ok", db |-> db]
CorruptFile == [kind |-> "corrupt", db |-> EmptyDb]
MissingFile == [kind |-> "missing", db |-> EmptyDb]

\* Faulty variant of _load_db: a file that cannot be read counts as holding a job.
_load_db_placeholder(f) ==
    IF f.kind = "ok" THEN f.db
    ELSE [k \in {"101"} |->
            [job_id |-> "101", job_type |-> "service", service_name |-> "ollama",
             node |-> None, start_time |-> 0, status |-> "running", config |-> "{}",
             parent_job |-> None]]

_load_db(f) == IF f.kind = "ok" THEN f.db ELSE EmptyDb

_save_db(data) == OkFile(data)

\* db[key] = value
Put(db, key, value) ==
    [k \in DOMAIN db \cup {key} |-> IF k = key THEN value ELSE db[k]]

\* del db[key]
Del(db, key) == [k \in DOMAIN db \ {key} |-> db[k]]

\* dict.update
DictUpdate(d, kwargs) ==
    [k \in DOMAIN d \cup DOMAIN kwargs |-> IF k \in DOMAIN kwargs THEN kwargs[k] ELSE d[k]]

\* `config or {}`
OrEmptyDict(config) == IF config \in {None, "{}"} THEN "{}" ELSE config

\* Faulty variant of add_job: the new record is merged into the one already stored.
add_job_merge(f, job_id, job_type, service_name, node, config, parent_job, t) ==
    LET db == _load_db(f)
        new == [job_id |-> job_id, job_type |-> job_type,
                service_name |-> service_name, start_time |-> t,
                config |-> OrEmptyDict(config), parent_job |-> parent_job]
        full == [job_id |-> job_id, job_type |-> job_type,
                 service_name |-> service_name, node |-> node, start_time |-> t,
                 status |-> "running", config |-> OrEmptyDict(config),
                 parent_job |-> parent_job]
    IN  _save_db(Put(db, job_id,
                     IF job_id \in DOMAIN db THEN DictUpdate(db[job_id], new) ELSE full))

\* Faulty variant of add_job: the new record is saved alone.
add_job_alone(f, job_id, job_type, service_name, node, config, parent_job, t) ==
    _save_db(Put(EmptyDb, job_id,
                 [job_id |-> job_id, job_type |-> job_type,
                  service_name |-> service_name, node |-> node, start_time |-> t,
                  status |-> "running", config |-> OrEmptyDict(config),
                  parent_job |-> parent_job]))

\* The file after add_job(...) called at time t.
add_job(f, job_id, job_type, service_name, node, config, parent_job, t) ==
    LET db == _load_db(f) IN
    _save_db(Put(db, job_id,
                 [job_id |-> job_id, job_type |-> job_type,
                  service_name |-> service_name, node |-> node, start_time |-> t,
                  status |-> "running", config |-> OrEmptyDict(config),
                  parent_job |-> parent_job]))

\* Faulty variant of update_job: the updated db is not saved.
update_job_no_save(f, job_id, kwargs) == f

\* Faulty variant of update_job: an unknown job id gets a record.
update_job_upsert(f, job_id, kwargs) ==
    LET db == _load_db(f) IN
    IF job_id \in DOMAIN db
    THEN _save_db(Put(db, job_id, DictUpdate(db[job_id], kwargs)))
    ELSE _save_db(Put(db, job_id, kwargs))

\* Faulty variant of update_job: the node is cleared unless it is passed.
update_job_resets(f, job_id, kwargs) ==
    LET db == _load_db(f) IN
    IF job_id \in DOMAIN db
    THEN _save_db(Put(db, job_id, DictUpdate([db[job_id] EXCEPT !.node = None], kwargs)))
    ELSE f

\* The file after update_job(job_id, **kwargs).
update_job(f, job_id, kwargs) ==
    LET db == _load_db(f) IN
    IF job_id \in DOMAIN db
    THEN _save_db(Put(db, job_id, DictUpdate(db[job_id], kwargs)))
    ELSE f

\* db.get(job_id): no record, or one.
get_job(f, job_id) ==
    LET db == _load_db(f) IN
    IF job_id \in DOMAIN db THEN {db[job_id]} ELSE {}

get_jobs_by_type(f, job_type) ==
    LET db == _load_db(f) IN
    {db[k] : k \in {j \in DOMAIN db : db[j].job_type = job_type}}

get_all_jobs(f) == _load_db(f)

remove_job(f, job_id) ==
    LET db == _load_db(f) IN
    IF job_id \in DOMAIN db THEN _save_db(Del(db, job_id)) ELSE f

clear_all(f) == _save_db(EmptyDb)

\* Newest first; the `keep` latest operations are remembered.
Log(entry, keep) == SubSeq(<<entry>> \o trail, 1, IF Len(trail) + 1 < keep THEN Len(trail) + 1 ELSE keep)

----------------------------------------------------------------------------
(* A client of the JobTracker API, one call after the other.               *)

AddArgs ==
    {[job_type |-> "service", service_name |-> "ollama", node |-> None,
      config |-> None, parent_job |-> None],
     [job_type |-> "monitor", service_name |-> "ollama_monitor", node |-> "node07",
      config |-> "{interval: 5}", parent_job |-> "101"]}

UpdateKwargs ==
    {[status |-> "healthy"], [status |-> "stopped"], [node |-> "node08"],
     [node |-> None, note |-> "x"]}

\* A record as an earlier session left it.
OldRecord(job_id, node, status) ==
    [job_id |-> job_id, job_type |-> "service", service_name |-> "chroma",
     node |-> node, start_time |-> 0, status |-> status, config |-> "{}",
     parent_job |-> None]

\* Files earlier sessions may have left behind.
InitFiles ==
    {OkFile(EmptyDb),
     OkFile(Put(Put(EmptyDb, "101", OldRecord("101", "node07", "healthy")),
                "102", OldRecord("102", None, "running"))),
     CorruptFile}

InitRegistry ==
    /\ now = 1
    /\ rs = IdleResolver
    /\ h = NoHistory
    /\ budget = 0
    /\ file \in InitFiles \cup {MissingFile}
    /\ ss = IdleStart
    /\ sched = {}
    /\ trail = <<>>
    /\ ops = 0
    /\ procs = IdleProcs
    /\ reg = NoRegistryHistory
    /\ mon = IdleMonitors
    /\ probe = IdleProbe
    /\ tasks = NoTasks

\* Every call takes a second.
Called(entry) ==
    /\ ops < MaxOps
    /\ ops' = ops + 1
    /\ now' = now + 1
    /\ trail' = Log(entry @@ [pre |-> file, at |-> now], 3)
    /\ UNCHANGED <<rs, h, ss, sched, budget, procs, reg, mon, probe, tasks>>

CallAddJob ==
    \E j \in JobIds, a \in AddArgs :
        /\ file' = add_job(file, j, a.job_type, a.service_name, a.node, a.config,
                           a.parent_job, now)
        /\ Called([op |-> "add_job", job_id |-> j, args |-> a])

CallUpdateJob ==
    \E j \in JobIds, kw \in UpdateKwargs :
        /\ file' = update_job(file, j, kw)
        /\ Called([op |-> "update_job", job_id |-> j, kwargs |-> kw])

CallGetJob ==
    \E j \in JobIds :
        /\ file' = file
        /\ Called([op |-> "get_job", job_id |-> j, ret |-> get_job(file, j)])

CallGetJobsByType ==
    \E ty \in {"service", "monitor"} :
        /\ file' = file
        /\ Called([op |-> "get_jobs_by_type", job_type |-> ty,
                   ret |-> get_jobs_by_type(file, ty)])

CallGetAllJobs ==
    /\ file' = file
    /\ Called([op |-> "get_all_jobs", ret |-> get_all_jobs(file)])

CallRemoveJob ==
    \E j \in JobIds :
        /\ file' = remove_job(file, j)
        /\ Called([op |-> "remove_job", job_id |-> j])

CallClearAll ==
    /\ file' = clear_all(file)
    /\ Called([op |-> "clear_all"])

NextRegistry ==
    \/ CallAddJob
    \/ CallUpdateJob
    \/ CallGetJob
    \/ CallGetJobsByType
    \/ CallGetAllJobs
    \/ CallRemoveJob
    \/ CallClearAll

SpecRegistry == InitRegistry /\ [][NextRegistry]_vars

----------------------------------------------------------------------------
(* ServiceManager: start_service and stop_service, with the job tracker    *)
(* the CLI passes in.                                                      *)

\* configs/service_recipes.yaml: service name -> the recipe's health_check.
ServiceRecipes ==
    [ollama |-> "ollama", postgres |-> "postgres", chroma |-> "chroma",
     echo_service |-> None]

ServiceNames == DOMAIN ServiceRecipes \cup {"nosuch"}

\* self.health_check_mapping
health_check_mapping == {"ollama", "postgres", "chroma"}

\* What health_check_func(node) may return: test_ollama and test_chroma
\* return True or False, test_postgres falls off its end.
HealthReturns(health_check) ==
    IF health_check = "postgres" THEN {"None"} ELSE {"True", "False"}

\* What health_check_func(node) may raise: test_ollama passes a timeout to
\* requests.post that is not positive when its waiting time ran out during
\* the last GET, and requests raises ValueError.
HealthRaises(health_check) ==
    IF health_check = "ollama" THEN {"ValueError"} ELSE {}

\* What running sbatch may come to: the command fails, its output carries
\* no "Submitted batch job <id>", or it carries a job id.
Submissions == {"failed", "unparsable"} \cup JobIds

\* Faulty variant of StartSubmit: the job is polled before it is recorded.
StartSubmitUntracked ==
    /\ ss.pc = "idle"
    /\ \E service_name \in ServiceNames, script \in BOOLEAN, out \in Submissions :
         /\ service_name \in DOMAIN ServiceRecipes /\ script /\ out \in JobIds
         /\ ss' = [IdleStart EXCEPT !.pc = "resolve", !.service_name = service_name,
                                    !.job_id = out]
         /\ get_job_node(out, DefaultMaxWait, DefaultInterval)
         /\ UNCHANGED <<file, trail>>
    /\ UNCHANGED <<now, sched, ops, budget, procs, reg, mon, probe, tasks>>

\* Faulty variant of StartSubmit: a submission that failed is recorded as a job.
StartSubmitTracksFailure ==
    /\ ss.pc = "idle"
    /\ \E service_name \in ServiceNames, script \in BOOLEAN, out \in Submissions :
         IF service_name \in DOMAIN ServiceRecipes /\ script /\ out \in JobIds
         THEN /\ file' = add_job(file, out, "service", service_name, None,
                                 "{partition: gpu}", None, now)
              /\ trail' = Log([op |-> "add_job", job_id |-> out, pre |-> file], 1)
              /\ ss' = [IdleStart EXCEPT !.pc = "resolve",
                                         !.service_name = service_name,
                                         !.job_id = out,
                                         !.created = get_job(file', out),
                                         !.events = <<"add_job">>]
              /\ get_job_node(out, DefaultMaxWait, DefaultInterval)
         ELSE /\ ss' = [IdleStart EXCEPT !.pc = "done", !.service_name = service_name]
              /\ trail' = Log([op |-> "start_service", job_id |-> None, pre |-> file,
                               cause |-> IF service_name \notin DOMAIN ServiceRecipes
                                         THEN "service"
                                         ELSE IF ~script THEN "script" ELSE out], 1)
              /\ file' = add_job(file, "101", "service", service_name, None, None, None, now)
              /\ UNCHANGED <<rs, h>>
    /\ UNCHANGED <<now, sched, ops, budget, procs, reg, mon, probe, tasks>>

\* start_service up to the call of get_job_node: recipe lookup, script
\* check, sbatch, add_job.
StartSubmit ==
    /\ ss.pc = "idle"
    /\ \E service_name \in ServiceNames, script \in BOOLEAN, out \in Submissions :
         IF service_name \in DOMAIN ServiceRecipes /\ script /\ out \in JobIds
         THEN /\ file' = add_job(file, out, "service", service_name, None,
                                 "{partition: gpu}", None, now)
              /\ trail' = Log([op |-> "add_job", job_id |-> out, pre |-> file], 1)
              /\ ss' = [IdleStart EXCEPT !.pc = "resolve",
                                         !.service_name = service_name,
                                         !.job_id = out,
                                         !.created = get_job(file', out),
                                         !.events = <<"add_job">>]
              /\ get_job_node(out, DefaultMaxWait, DefaultInterval)
         ELSE /\ ss' = [IdleStart EXCEPT !.pc = "done", !.service_name = service_name]
              /\ trail' = Log([op |-> "start_service", job_id |-> None, pre |-> file,
                               cause |-> IF service_name \notin DOMAIN ServiceRecipes
                                         THEN "service"
                                         ELSE IF ~script THEN "script" ELSE out], 1)
              /\ UNCHANGED <<file, rs, h>>
    /\ UNCHANGED <<now, sched, ops, budget, procs, reg, mon, probe, tasks>>

\* get_job_node running inside start_service.
StartPoll ==
    /\ ss.pc = "resolve"
    /\ Poll
    /\ ss' = [ss EXCEPT !.events =
                 @ \o (IF rs.queries = 0 /\ rs'.queries = 1 THEN <<"query">> ELSE <<>>)
                   \o (IF rs'.pc = "done" /\ rs'.result # None
                       THEN <<"node_returned">> ELSE <<>>)]
    /\ UNCHANGED <<file, sched, trail, ops, budget, procs, reg, mon, probe, tasks>>

\* Faulty variant of StartResolved: a job without a node is marked failed.
StartResolvedMarksFailed ==
    /\ ss.pc = "resolve" /\ rs.pc = "done"
    /\ IF ~Truthy(rs.result)
       THEN /\ ss' = [ss EXCEPT !.pc = "done", !.ret = ss.job_id,
                                !.wrote = @ \cup {"failed"}]
            /\ file' = update_job(file, ss.job_id, [status |-> "failed"])
            /\ trail' = Log([op |-> "start_service", job_id |-> ss.job_id, pre |-> file], 1)
       ELSE /\ ss' = [ss EXCEPT !.pc = "check", !.node = rs.result,
                                !.events = @ \o <<"node_written">>]
            /\ file' = update_job(file, ss.job_id, [node |-> rs.result])
            /\ trail' = Log([op |-> "update_job", job_id |-> ss.job_id, pre |-> file], 1)
    /\ UNCHANGED <<now, rs, h, sched, ops, budget, procs, reg, mon, probe, tasks>>

\* Faulty variant of StartResolved: the health check is run whether or not a node
\* was found.
StartResolvedAlwaysChecks ==
    /\ ss.pc = "resolve" /\ rs.pc = "done"
    /\ ss' = [ss EXCEPT !.pc = "check", !.node = rs.result,
                        !.events = @ \o <<"node_written">>]
    /\ file' = update_job(file, ss.job_id, [node |-> rs.result])
    /\ trail' = Log([op |-> "update_job", job_id |-> ss.job_id, pre |-> file], 1)
    /\ UNCHANGED <<now, rs, h, sched, ops, budget, procs, reg, mon, probe, tasks>>

\* Faulty variant of StartResolved: the node is not stored.
StartResolvedForgetsNode ==
    /\ ss.pc = "resolve" /\ rs.pc = "done"
    /\ IF ~Truthy(rs.result)
       THEN /\ ss' = [ss EXCEPT !.pc = "done", !.ret = ss.job_id]
            /\ trail' = Log([op |-> "start_service", job_id |-> ss.job_id, pre |-> file], 1)
       ELSE /\ ss' = [ss EXCEPT !.pc = "check", !.node = rs.result]
            /\ trail' = trail
    /\ UNCHANGED <<now, rs, h, file, sched, ops, budget, procs, reg, mon, probe, tasks>>

\* get_job_node has returned: without a node start_service returns the
\* job id; with one it stores the node.
StartResolved ==
    /\ ss.pc = "resolve" /\ rs.pc = "done"
    /\ IF ~Truthy(rs.result)
       THEN /\ ss' = [ss EXCEPT !.pc = "done", !.ret = ss.job_id]
            /\ file' = file
            /\ trail' = Log([op |-> "start_service", job_id |-> ss.job_id, pre |-> file], 1)
       ELSE /\ ss' = [ss EXCEPT !.pc = "check", !.node = rs.result,
                                !.events = @ \o <<"node_written">>]
            /\ file' = update_job(file, ss.job_id, [node |-> rs.result])
            /\ trail' = Log([op |-> "update_job", job_id |-> ss.job_id, pre |-> file], 1)
    /\ UNCHANGED <<now, rs, h, sched, ops, budget, procs, reg, mon, probe, tasks>>

\* The recipe's health check is looked up and, if there is one, called.
StartHealthCheck ==
    /\ ss.pc = "check"
    /\ IF ServiceRecipes[ss.service_name] \in health_check_mapping
       THEN /\ ss' = [ss EXCEPT !.pc = "probing", !.events = @ \o <<"probe_invoked">>]
            /\ trail' = trail
       ELSE /\ ss' = [ss EXCEPT !.pc = "done", !.ret = ss.job_id]
            /\ trail' = Log([op |-> "start_service", job_id |-> ss.job_id, pre |-> file], 1)
    /\ UNCHANGED <<now, rs, h, file, sched, ops, budget, procs, reg, mon, probe, tasks>>

\* Faulty variant of health_status: the outcome is recorded the wrong way round.
health_status_inverted(value) == IF value = "True" THEN "unhealthy" ELSE "healthy"

\* `if health_check_func(node)`: the status to record.
health_status(value) == IF value = "True" THEN "healthy" ELSE "unhealthy"

\* Faulty variant of StartHealthResult: a check that failed is made again.
StartHealthResultRetries ==
    /\ ss.pc = "probing"
    /\ \E value \in HealthReturns(ServiceRecipes[ss.service_name]) :
         IF value # "True"
         THEN /\ ss' = [ss EXCEPT !.pc = "check", !.health = value]
              /\ UNCHANGED <<file, trail>>
         ELSE /\ ss' = [ss EXCEPT !.pc = "done", !.ret = ss.job_id, !.health = value,
                                  !.wrote = @ \cup {health_status(value)},
                                  !.events = @ \o <<"probe_returned", "status_written">>]
              /\ file' = update_job(file, ss.job_id, [status |-> health_status(value)])
              /\ trail' = Log([op |-> "start_service", job_id |-> ss.job_id,
                               pre |-> file], 1)
    /\ UNCHANGED <<now, rs, h, sched, ops, budget, procs, reg, mon, probe, tasks>>

\* The health check returns; its outcome is stored and start_service
\* returns the job id.  An exception of the health check ends the call.
StartHealthResult ==
    /\ ss.pc = "probing"
    /\ \E value \in HealthReturns(ServiceRecipes[ss.service_name])
                      \cup HealthRaises(ServiceRecipes[ss.service_name]) :
         IF value \in HealthRaises(ServiceRecipes[ss.service_name])
         THEN /\ ss' = [ss EXCEPT !.pc = "raised", !.health = value]
              /\ UNCHANGED <<file, trail>>
         ELSE /\ ss' = [ss EXCEPT !.pc = "done", !.ret = ss.job_id, !.health = value,
                                  !.wrote = @ \cup {health_status(value)},
                                  !.events = @ \o <<"probe_returned", "status_written">>]
              /\ file' = update_job(file, ss.job_id, [status |-> health_status(value)])
              /\ trail' = Log([op |-> "start_service", job_id |-> ss.job_id,
                               pre |-> file], 1)
    /\ UNCHANGED <<now, rs, h, sched, ops, budget, procs, reg, mon, probe, tasks>>

\* Faulty variant of stop_service: the record is marked whatever scancel said.
stop_service_unconditional(f, job_id, cancelled) ==
    update_job(f, job_id, [status |-> "stopped"])

\* Faulty variant of stop_service: the stopped record is written anew.
stop_service_rewrites(f, job_id, cancelled) ==
    IF cancelled
    THEN IF job_id \in DOMAIN _load_db(f)
         THEN add_job(f, job_id, "service", None, None, None, None, 0)
         ELSE f
    ELSE f

\* The file after stop_service(job_id), given what cancel_job returned.
stop_service(f, job_id, cancelled) ==
    IF cancelled THEN update_job(f, job_id, [status |-> "stopped"]) ELSE f

\* `service stop <job_id>`, from any terminal, at any time.
StopService ==
    /\ ops < MaxStops
    /\ ops' = ops + 1
    /\ \E job_id \in JobIds, cancelled \in BOOLEAN :
         /\ file' = stop_service(file, job_id, cancelled)
         /\ sched' = IF cancelled THEN sched \cup {job_id} ELSE sched
         /\ trail' = Log([op |-> "stop_service", job_id |-> job_id,
                          cancelled |-> cancelled, pre |-> file], 1)
    /\ UNCHANGED <<now, rs, h, ss, budget, procs, reg, mon, probe, tasks>>

\* The registry file as start_service finds it; status queries and sleeps
\* take their nominal time here (SpecResolver explores their timing).
Init ==
    /\ now = 1
    /\ rs = IdleResolver
    /\ h = NoHistory
    /\ budget = 0
    /\ file \in InitFiles
    /\ ss = IdleStart
    /\ sched = {}
    /\ trail = <<>>
    /\ ops = 0
    /\ procs = IdleProcs
    /\ reg = NoRegistryHistory
    /\ mon = IdleMonitors
    /\ probe = IdleProbe
    /\ tasks = NoTasks

Next ==
    \/ StartSubmit
    \/ StartPoll
    \/ StartResolved
    \/ StartHealthCheck
    \/ StartHealthResult
    \/ StopService

Spec == Init /\ [][Next]_vars

----------------------------------------------------------------------------
(* A client calling get_job_node directly.                                 *)

ResolverParams ==
    ((0..MaxWait) \X (1..MaxInterval)) \cup {<<DefaultMaxWait, DefaultInterval>>}

InitResolver ==
    /\ now = 0
    /\ rs = IdleResolver
    /\ h = NoHistory
    /\ budget = MaxDrift
    /\ file = OkFile(EmptyDb)
    /\ ss = IdleStart
    /\ sched = {}
    /\ trail = <<>>
    /\ ops = 0
    /\ procs = IdleProcs
    /\ reg = NoRegistryHistory
    /\ mon = IdleMonitors
    /\ probe = IdleProbe
    /\ tasks = NoTasks

CallResolver ==
    /\ rs.pc = "idle"
    /\ \E j \in JobIds, p \in ResolverParams : get_job_node(j, p[1], p[2])
    /\ UNCHANGED <<now, file, ss, sched, trail, ops, budget, procs, reg, mon, probe, tasks>>

StepResolver ==
    /\ Poll
    /\ UNCHANGED <<file, ss, sched, trail, ops, budget, procs, reg, mon, probe, tasks>>

NextResolver == CallResolver \/ StepResolver

SpecResolver == InitResolver /\ [][NextResolver]_vars

\* The process running get_job_node is scheduled: a call under way takes
\* its next step.
SpecResolverFair == SpecResolver /\ WF_vars(StepResolver)

----------------------------------------------------------------------------
(* Processes sharing the registry file.  A JobTracker call is not one      *)
(* step: _load_db reads the file, _save_db truncates it (open(path, "w"))  *)
(* and then writes it, and the other process may run in between.           *)

\* JobTracker calls made in one behaviour.
MaxCalls == 3

\* open(self.db_path, "w") has truncated the file; nothing is written yet.
EmptyFile == [kind |-> "empty", db |-> EmptyDb]

\* Length of a value as json.dump writes it: null, or the quoted string.
JsonLen(v) == IF v = None THEN 4 ELSE Len(v) + 2

\* Length of a record's fields; start_time (an isoformat string) and the
\* punctuation take the same room in every record.
RECURSIVE FieldsLen(_, _)
FieldsLen(r, ks) ==
    IF ks = {} THEN 0
    ELSE LET k == CHOOSE x \in ks : TRUE
         IN  Len(k) + (IF k = "start_time" THEN 0 ELSE JsonLen(r[k]))
             + FieldsLen(r, ks \ {k})

RECURSIVE RecordsLen(_, _)
RecordsLen(db, ids) ==
    IF ids = {} THEN 0
    ELSE LET j == CHOOSE x \in ids : TRUE
         IN  Len(j) + FieldsLen(db[j], DOMAIN db[j]) + RecordsLen(db, ids \ {j})

\* Length of the text json.dump(db, f, indent=2) writes.
FileLen(db) == RecordsLen(db, DOMAIN db)

\* Faulty variant of overlay: a write replaces the file's content whole.
overlay_whole(cur, data) == {OkFile(data)}

\* What the write of _save_db leaves in a file that holds `cur` by then:
\* the text of `data` from offset 0, followed by whatever `cur` has beyond
\* that length.  A writer that truncated the file before another wrote it
\* leaves the tail of the other's longer text behind its own.
overlay(cur, data) ==
    IF cur.kind = "empty" THEN {OkFile(data)}
    ELSE IF cur.kind = "ok"
         THEN IF FileLen(cur.db) > FileLen(data) THEN {CorruptFile} ELSE {OkFile(data)}
         ELSE {OkFile(data), CorruptFile}

\* The keyword arguments the program passes to update_job: start_service
\* stores the node and the health check's outcome (here True: False only
\* stores another word), stop_service "stopped".
ProgramKwargs ==
    {[node |-> "node08"], [status |-> "stopped"]}
    \cup {[status |-> health_status(v)] : v \in {"True"}}

RegistryCalls ==
    {[op |-> "add_job", job_id |-> j] : j \in JobIds}
    \cup {[op |-> "update_job", job_id |-> j, kwargs |-> kw] :
             j \in JobIds, kw \in ProgramKwargs}
    \cup {[op |-> "get_job", job_id |-> j] : j \in JobIds}
    \cup {[op |-> "get_jobs_by_type", job_type |-> "service"]}
    \cup {[op |-> "get_all_jobs"]}
    \cup {[op |-> "remove_job", job_id |-> j] : j \in JobIds}
    \cup {[op |-> "clear_all"]}

reads(c) == c.op \in {"get_job", "get_jobs_by_type", "get_all_jobs"}

\* Whether the call, having loaded db, goes on to _save_db.
saves(c, db) ==
    \/ c.op \in {"add_job", "clear_all"}
    \/ c.op \in {"update_job", "remove_job"} /\ c.job_id \in DOMAIN db

\* The db the call passes to _save_db, having loaded db at time t.
to_save(c, db, t) ==
    CASE c.op = "add_job" ->
            _load_db(add_job(OkFile(db), c.job_id, "service", "ollama", None,
                             "{partition: gpu}", None, t))
      [] c.op = "update_job" -> _load_db(update_job(OkFile(db), c.job_id, c.kwargs))
      [] c.op = "remove_job" -> _load_db(remove_job(OkFile(db), c.job_id))
      [] c.op = "clear_all" -> _load_db(clear_all(OkFile(db)))
      [] OTHER -> db

\* What a reading call returns, having loaded db.
returns(c, db) ==
    CASE c.op = "get_job" -> get_job(OkFile(db), c.job_id)
      [] c.op = "get_jobs_by_type" -> get_jobs_by_type(OkFile(db), c.job_type)
      [] c.op = "get_all_jobs" -> get_all_jobs(OkFile(db))
      [] OTHER -> None

\* A mutation that has loaded the file and not yet finished its save.
InFlight(p) == procs[p].pc \in {"save", "write"}

\* The complete stores there are: the one saved last, and the ones the
\* mutations under way are about to leave.
CompleteStores == {reg.committed} \cup {procs[q].data : q \in {x \in Procs : InFlight(x)}}

HasNode(db) == {j \in DOMAIN db : db[j].node # None}

\* A process calls into the JobTracker; the call runs up to and including
\* its _load_db (clear_all has none).  A call that does not save returns.
ProcLoad(p) ==
    /\ procs[p].pc = "idle"
    /\ ops < MaxCalls
    /\ ops' = ops + 1
    /\ \E c \in RegistryCalls :
         \* sbatch hands out a job id it has not handed out before
         /\ c.op = "add_job" => c.job_id \notin reg.known
         /\ LET db == IF c.op = "clear_all" THEN EmptyDb ELSE _load_db(file)
                mutation == saves(c, db)
                race == mutation /\ \E q \in Procs \ {p} : InFlight(q)
            IN  /\ procs' =
                     [q \in Procs |->
                        IF q = p
                        THEN [pc |-> IF mutation THEN "save" ELSE "idle",
                              call |-> c,
                              db |-> db,
                              data |-> IF mutation THEN to_save(c, db, now) ELSE EmptyDb,
                              ret |-> returns(c, db),
                              raced |-> race,
                              stores |-> IF c.op = "clear_all" THEN {} ELSE CompleteStores]
                        ELSE IF race /\ InFlight(q)
                             THEN [procs[q] EXCEPT !.raced = TRUE]
                             ELSE procs[q]]
                /\ reg' = [reg EXCEPT
                             !.known = IF c.op = "add_job" THEN @ \cup {c.job_id} ELSE @,
                             !.deleted = @ \/ c.op \in {"remove_job", "clear_all"},
                             !.raced = @ \/ race]
    /\ UNCHANGED <<now, rs, h, file, ss, sched, trail, budget, mon, probe, tasks>>

\* _save_db, first half: `with open(self.db_path, "w") as f`.
ProcSaveOpen(p) ==
    /\ procs[p].pc = "save"
    /\ file' = EmptyFile
    /\ procs' = [procs EXCEPT ![p].pc = "write"]
    /\ UNCHANGED <<now, rs, h, ss, sched, trail, ops, budget, reg, mon, probe, tasks>>

\* _save_db, second half: json.dump and the close that flushes it.
ProcSaveWrite(p) ==
    /\ procs[p].pc = "write"
    /\ \E f \in overlay(file, procs[p].data) :
         /\ file' = f
         /\ trail' = Log([op |-> procs[p].call.op, call |-> procs[p].call,
                          db |-> procs[p].db, data |-> procs[p].data,
                          raced |-> procs[p].raced, stores |-> procs[p].stores], 1)
         /\ reg' = IF f.kind = "ok"
                   THEN [reg EXCEPT
                           !.committed = f.db,
                           !.hadNode = @ \cup HasNode(f.db),
                           !.persisted = IF procs[p].call.op = "add_job"
                                         THEN @ \cup {procs[p].call.job_id} ELSE @]
                   ELSE reg
    /\ procs' = [procs EXCEPT ![p] = IdleProc]
    /\ UNCHANGED <<now, rs, h, ss, sched, ops, budget, mon, probe, tasks>>

InitShared ==
    /\ now = 1
    /\ rs = IdleResolver
    /\ h = NoHistory
    /\ budget = 0
    /\ file \in InitFiles
    /\ ss = IdleStart
    /\ sched = {}
    /\ trail = <<>>
    /\ ops = 0
    /\ procs = IdleProcs
    /\ reg = [NoRegistryHistory EXCEPT !.known = DOMAIN _load_db(file),
                                       !.hadNode = HasNode(_load_db(file)),
                                       !.persisted = DOMAIN _load_db(file),
                                       !.committed = _load_db(file)]
    /\ mon = IdleMonitors
    /\ probe = IdleProbe
    /\ tasks = NoTasks

NextShared ==
    \E p \in Procs :
        \/ ProcLoad(p)
        \/ ProcSaveOpen(p)
        \/ ProcSaveWrite(p)

SpecShared == InitShared /\ [][NextShared]_vars

----------------------------------------------------------------------------
(* MonitorManager with the monitor thread it starts (BaseMonitor.start),  *)
(* and BenchmarkManager.run_benchmark.                                     *)

\* Seconds by which the collections and sleeps of one monitor run may, in
\* total, take longer than nothing / than the interval.
MaxLag == 2
\* start_monitor and stop_monitor calls in one behaviour.
MaxStarts == 2
\* Monitors are run for durations 0..MaxDuration (and for 10 seconds at
\* interval 2).
MaxDuration == 3

\* self.monitor_types: a class, or the dotted name of one.
monitor_types == [ollama |-> "class", chroma |-> "str", postgres |-> "str"]

MonitorServices == DOMAIN monitor_types \cup {"nosuch"}

\* duration and interval; a negative interval makes time.sleep raise.
MonitorParams ==
    {<<10, 2>>, <<MaxDuration, -1>>} \cup ((0..MaxDuration) \X (1..MaxInterval))

\* A monitor an earlier start_monitor call of this process started.
OldMonitor == "monitor_ollama_101_0"

\* Faulty variant of registry_node: a job without a node is looked for on this host.
registry_node_default(tracker, f, job_id) ==
    IF tracker /\ get_job(f, job_id) # {}
    THEN LET node == (CHOOSE r \in get_job(f, job_id) : TRUE).node
         IN  IF Truthy(node) THEN node ELSE "localhost"
    ELSE "localhost"

\* start_monitor: the node of the job, from the job tracker if there is one.
registry_node(tracker, f, job_id) ==
    IF tracker /\ get_job(f, job_id) # {}
    THEN (CHOOSE r \in get_job(f, job_id) : TRUE).node
    ELSE None

\* The endpoint start_monitor builds for the monitor.
endpoint_of(service_name, node) ==
    CASE service_name = "ollama" -> "http://" \o node \o ":11434/metrics"
      [] service_name = "chroma" -> "http://" \o node \o ":8000"
      [] service_name = "postgres" -> node \o ":5432"
      [] OTHER -> None

\* time.strftime("%Y%m%d-%H%M%S"): the time, to the second.
strftime(t) == ToString(t)

output_file_of(service_name, job_id, t) ==
    service_name \o "_monitor_" \o job_id \o "_" \o strftime(t) \o ".json"

monitor_id_of(service_name, job_id, t) ==
    "monitor_" \o service_name \o "_" \o job_id \o "_" \o strftime(t)

\* Faulty variant of StartMonitor: the call returns when the monitor has run.
StartMonitorJoins ==
    /\ mon.thread.pc = "none" /\ mon.bench.pc = "idle"
    /\ ops < MaxStarts
    /\ ops' = ops + 1
    /\ \E service_name \in MonitorServices, job_id \in JobIds, tracker \in BOOLEAN,
          p \in MonitorParams, gpu \in BOOLEAN, running \in {"node07", None} :
         LET node == registry_node(tracker, file, job_id)
             monitor_id == monitor_id_of(service_name, job_id, now)
             ret == IF ~Truthy(node) THEN None
                    ELSE IF service_name \notin DOMAIN monitor_types THEN None
                    ELSE IF monitor_types[service_name] # "class" THEN "TypeError"
                    ELSE monitor_id
         IN  /\ mon' = IF ret = monitor_id
                       THEN [mon EXCEPT
                               !.ret = ret,
                               !.active_monitors = @ \cup {monitor_id},
                               !.thread = [NoThread EXCEPT
                                             !.pc = "saved",
                                             !.endpoint = endpoint_of(service_name, node),
                                             !.duration = p[1],
                                             !.interval = p[2],
                                             !.output_file =
                                                 output_file_of(service_name, job_id, now),
                                             !.start_time = now,
                                             !.gpu = gpu]]
                       ELSE [mon EXCEPT !.ret = ret]
             /\ trail' = Log([op |-> "start_monitor", service_name |-> service_name,
                              job_id |-> job_id, tracker |-> tracker,
                              running |-> running, ret |-> ret, pre |-> mon], 1)
    /\ UNCHANGED <<now, rs, h, file, ss, sched, budget, procs, reg, probe, tasks>>

\* start_monitor(service_name, job_id, duration, interval), to its return.
\* `running` is the node the scheduler would report the job RUNNING on
\* (None: none), were it asked.
StartMonitor ==
    /\ mon.thread.pc = "none" /\ mon.bench.pc = "idle"
    /\ ops < MaxStarts
    /\ ops' = ops + 1
    /\ \E service_name \in MonitorServices, job_id \in JobIds, tracker \in BOOLEAN,
          p \in MonitorParams, gpu \in BOOLEAN, running \in {"node07", None} :
         LET node == registry_node(tracker, file, job_id)
             monitor_id == monitor_id_of(service_name, job_id, now)
             ret == IF ~Truthy(node) THEN None
                    ELSE IF service_name \notin DOMAIN monitor_types THEN None
                    ELSE IF monitor_types[service_name] # "class" THEN "TypeError"
                    ELSE monitor_id
         IN  /\ mon' = IF ret = monitor_id
                       THEN [mon EXCEPT
                               !.ret = ret,
                               !.active_monitors = @ \cup {monitor_id},
                               !.thread = [NoThread EXCEPT
                                             !.pc = "loop",
                                             !.endpoint = endpoint_of(service_name, node),
                                             !.duration = p[1],
                                             !.interval = p[2],
                                             !.output_file =
                                                 output_file_of(service_name, job_id, now),
                                             !.start_time = now,
                                             !.gpu = gpu]]
                       ELSE [mon EXCEPT !.ret = ret]
             /\ trail' = Log([op |-> "start_monitor", service_name |-> service_name,
                              job_id |-> job_id, tracker |-> tracker,
                              running |-> running, ret |-> ret, pre |-> mon], 1)
    /\ UNCHANGED <<now, rs, h, file, ss, sched, budget, procs, reg, probe, tasks>>

\* Faulty variant of StopMonitor: every entry is dropped.
StopMonitorClears ==
    /\ mon.bench.pc = "idle"
    /\ ops < MaxStarts
    /\ ops' = ops + 1
    /\ \E monitor_id \in mon.active_monitors \cup {"monitor_ollama_102_0"} :
         /\ mon' = [mon EXCEPT !.active_monitors = {}]
         /\ trail' = Log([op |-> "stop_monitor", monitor_id |-> monitor_id, pre |-> mon], 1)
    /\ UNCHANGED <<now, rs, h, file, ss, sched, budget, procs, reg, probe, tasks>>

\* stop_monitor(monitor_id): the entry is dropped, the thread runs on.
StopMonitor ==
    /\ mon.bench.pc = "idle"
    /\ ops < MaxStarts
    /\ ops' = ops + 1
    /\ \E monitor_id \in mon.active_monitors \cup {"monitor_ollama_102_0"} :
         /\ mon' = [mon EXCEPT !.active_monitors = @ \ {monitor_id}]
         /\ trail' = Log([op |-> "stop_monitor", monitor_id |-> monitor_id, pre |-> mon], 1)
    /\ UNCHANGED <<now, rs, h, file, ss, sched, budget, procs, reg, probe, tasks>>

\* Faulty variant of sampling: a sample is taken at elapsed = duration too.
sampling_inclusive(elapsed, duration) == elapsed <= duration

\* The loop condition of BaseMonitor.start.
sampling(elapsed, duration) == elapsed < duration

\* collect_system_metrics: psutil answers, or raises (disk_io_counters()
\* is None on a host without disks, and None has no _asdict).
collect_system_metrics(outcome) ==
    IF outcome = "ok"
    THEN [raised |-> FALSE, value |-> [cpu_usage |-> "12.5", memory_usage |-> "40.1"]]
    ELSE [raised |-> TRUE, value |-> outcome]

\* collect_gpu_metrics: nvidia-smi's figures, or {} if it cannot be run.
collect_gpu_metrics(gpu) ==
    IF gpu THEN [raised |-> FALSE, value |-> [gpu_util |-> "0.0"]]
    ELSE [raised |-> FALSE, value |-> <<>>]

\* Faulty variant of collect_service_metrics: a failed request is not caught.
collect_service_metrics_uncaught(response) ==
    IF response = "ok"
    THEN [raised |-> FALSE, value |-> [ollama_requests_total |-> "1.0"]]
    ELSE [raised |-> TRUE, value |-> response]

\* OllamaMonitor.collect_service_metrics: the metrics parsed from the
\* endpoint's answer, or {"error": str(e)} when the request raised.
collect_service_metrics(response) ==
    IF response = "ok"
    THEN [raised |-> FALSE, value |-> [ollama_requests_total |-> "1.0"]]
    ELSE [raised |-> FALSE, value |-> [error |-> response]]

\* One pass of the loop of BaseMonitor.start up to the sleep: the test
\* passes, the timestamp is taken, the three collectors run (d seconds),
\* the record is appended.  A collector that raises ends start().
MonitorSample ==
    /\ mon.thread.pc = "loop"
    /\ sampling(now - mon.thread.start_time, mon.thread.duration)
    /\ \E outcome \in {"ok", "AttributeError"}, response \in {"ok", "ConnectionError"},
          d \in 0..(MaxLag - mon.thread.lag) :
         LET system == collect_system_metrics(outcome)
             gpu == collect_gpu_metrics(mon.thread.gpu)
             service == collect_service_metrics(response)
             record == [timestamp |-> now, system |-> system.value,
                        gpu |-> gpu.value, service |-> service.value]
         IN  /\ now' = now + d
             /\ mon' = IF system.raised \/ gpu.raised \/ service.raised
                       THEN [mon EXCEPT !.thread.pc = "died",
                                        !.thread.lag = @ + d,
                                        !.thread.died =
                                            IF system.raised THEN "system"
                                            ELSE IF gpu.raised THEN "gpu" ELSE "service"]
                       ELSE [mon EXCEPT !.thread.pc = "sleep",
                                        !.thread.lag = @ + d,
                                        !.thread.data = Append(@, record)]
    /\ UNCHANGED <<rs, h, file, ss, sched, trail, ops, budget, procs, reg, probe, tasks>>

\* time.sleep(self.interval): at least interval seconds pass; a negative
\* interval raises ValueError.
MonitorSleep ==
    /\ mon.thread.pc = "sleep"
    /\ IF mon.thread.interval < 0
       THEN /\ mon' = [mon EXCEPT !.thread.pc = "died", !.thread.died = "sleep"]
            /\ now' = now
       ELSE \E d \in 0..(MaxLag - mon.thread.lag) :
              /\ now' = now + mon.thread.interval + d
              /\ mon' = [mon EXCEPT !.thread.pc = "loop", !.thread.lag = @ + d]
    /\ UNCHANGED <<rs, h, file, ss, sched, trail, ops, budget, procs, reg, probe, tasks>>

\* The loop test fails: self.save() writes self.data to the output file.
MonitorSave ==
    /\ mon.thread.pc = "loop"
    /\ ~sampling(now - mon.thread.start_time, mon.thread.duration)
    /\ mon' = [mon EXCEPT !.thread.pc = "saved",
                          !.files = Put(@, mon.thread.output_file, mon.thread.data)]
    /\ UNCHANGED <<now, rs, h, file, ss, sched, trail, ops, budget, procs, reg, probe, tasks>>

\* self.recipes: the names in configs/benchmark_recipes.yaml.
BenchmarkNames == {"ollama_latency"}

\* Waiting budget and sleep of BenchmarkManager._get_job_node.
BenchMaxWait == 300
BenchInterval == 5

\* BenchmarkManager._get_job_node: the loop of get_job_node with its own
\* figures.
_get_job_node(job_id) == get_job_node(job_id, BenchMaxWait, BenchInterval)

\* run_benchmark up to the call of _get_job_node.
RunBenchmark ==
    /\ mon.bench.pc = "idle" /\ mon.thread.pc = "none" /\ ops = 0
    /\ \E benchmark_name \in BenchmarkNames \cup {"nosuch"}, job_id \in JobIds :
         IF benchmark_name \in BenchmarkNames
         THEN /\ mon' = [mon EXCEPT !.bench.pc = "resolve",
                                    !.bench.benchmark_name = benchmark_name,
                                    !.bench.job_id = job_id]
              /\ _get_job_node(job_id)
              /\ trail' = trail
         ELSE /\ mon' = [mon EXCEPT !.bench.pc = "done",
                                    !.bench.benchmark_name = benchmark_name,
                                    !.bench.job_id = job_id]
              /\ trail' = Log([op |-> "run_benchmark", job_id |-> job_id, pre |-> mon], 1)
              /\ UNCHANGED <<rs, h>>
    /\ UNCHANGED <<now, file, ss, sched, ops, budget, procs, reg, probe, tasks>>

\* _get_job_node running inside run_benchmark.
BenchPoll ==
    /\ mon.bench.pc = "resolve"
    /\ Poll
    /\ UNCHANGED <<file, ss, sched, trail, ops, budget, procs, reg, mon, probe, tasks>>

\* _get_job_node has returned: without a node run_benchmark returns; with
\* one it imports the benchmark's module and calls its run(), which writes
\* the log file unless it raises.  (When scontrol is not installed the
\* except clause itself raises, on e.stderr, and run_benchmark ends there.)
BenchResolved ==
    /\ mon.bench.pc = "resolve" /\ rs.pc = "done"
    /\ IF ~Truthy(rs.result)
       THEN \E pc \in IF h.last = "failed" THEN {"done", "raised"} ELSE {"done"} :
              mon' = [mon EXCEPT !.bench.pc = pc]
       ELSE \E payload \in {"ok", "ImportError", "raises"} :
              mon' = [mon EXCEPT !.bench.pc = "done",
                                 !.bench.node = rs.result,
                                 !.bench.invoked = (payload # "ImportError"),
                                 !.bench.log_file = IF payload = "ok" THEN "written" ELSE None]
    /\ trail' = Log([op |-> "run_benchmark", job_id |-> mon.bench.job_id, pre |-> mon], 1)
    /\ UNCHANGED <<now, rs, h, file, ss, sched, ops, budget, procs, reg, probe, tasks>>

InitMonitor ==
    /\ now = 1
    /\ rs = IdleResolver
    /\ h = NoHistory
    /\ budget = 0
    /\ file \in InitFiles \ {CorruptFile}
    /\ ss = IdleStart
    /\ sched = {}
    /\ trail = <<>>
    /\ ops = 0
    /\ procs = IdleProcs
    /\ reg = NoRegistryHistory
    /\ mon \in {IdleMonitors, [IdleMonitors EXCEPT !.active_monitors = {OldMonitor}]}
    /\ probe = IdleProbe
    /\ tasks = NoTasks

NextMonitor ==
    \/ StartMonitor
    \/ StopMonitor
    \/ MonitorSample
    \/ MonitorSleep
    \/ MonitorSave
    \/ RunBenchmark
    \/ BenchPoll
    \/ BenchResolved

SpecMonitor == InitMonitor /\ [][NextMonitor]_vars

----------------------------------------------------------------------------
(* Several measurement launches: start_monitor calls of one manager, each  *)
(* with its own thread, and run_benchmark calls of CLI processes, all      *)
(* writing below one results directory.                                    *)

\* Launches in one behaviour.
MaxLaunches == 2
\* The clock runs from 1 to MaxClock.
MaxClock == 3

\* A registry in which every job has its node.
LaunchFile ==
    OkFile(Put(Put(EmptyDb, "101", OldRecord("101", "node07", "healthy")),
               "102", OldRecord("102", "node08", "healthy")))

\* The services whose monitor start_monitor can construct.
Monitorable == {s \in DOMAIN monitor_types : monitor_types[s] = "class"}

\* log_file of run_benchmark.
log_file_of(benchmark_name, job_id, t) ==
    benchmark_name \o "_" \o job_id \o "_" \o strftime(t) \o ".json"

\* start_monitor for a job whose node the registry holds: the output file
\* and the monitor id are named after service, job and second, the thread
\* is started and the entry stored under the id.
LaunchMonitor ==
    /\ Len(tasks.launched) < MaxLaunches
    /\ \E service_name \in Monitorable, job_id \in JobIds,
          duration \in 1..MaxDuration, interval \in 1..MaxInterval :
         LET node == registry_node(TRUE, file, job_id)
             monitor_id == monitor_id_of(service_name, job_id, now)
             task == [kind |-> "monitor", id |-> monitor_id,
                      output_file |-> output_file_of(service_name, job_id, now),
                      endpoint |-> endpoint_of(service_name, node),
                      duration |-> duration, interval |-> interval,
                      start_time |-> now, wakes |-> now, pc |-> "loop", data |-> <<>>]
         IN  /\ Truthy(node)
             /\ tasks' = [tasks EXCEPT
                            !.launched = Append(@, task),
                            !.active_monitors = Put(@, monitor_id, Len(tasks.launched) + 1)]
    /\ UNCHANGED <<now, rs, h, file, ss, sched, trail, ops, budget, procs, reg, mon, probe>>

\* run_benchmark, in a process of its own, once _get_job_node has given
\* the node: the log file is named after benchmark, job and second, and
\* the benchmark's run() is called with it.
LaunchBenchmark ==
    /\ Len(tasks.launched) < MaxLaunches
    /\ \E benchmark_name \in BenchmarkNames, job_id \in JobIds :
         LET task == [kind |-> "benchmark", id |-> None,
                      output_file |-> log_file_of(benchmark_name, job_id, now),
                      endpoint |-> None, duration |-> 0, interval |-> 0,
                      start_time |-> now, wakes |-> now, pc |-> "loop", data |-> <<>>]
         IN  tasks' = [tasks EXCEPT !.launched = Append(@, task)]
    /\ UNCHANGED <<now, rs, h, file, ss, sched, trail, ops, budget, procs, reg, mon, probe>>

\* open(path, "w") and json.dump by task i: the file holds what i wrote.
written(files, i, path, data) ==
    Put(files, path,
        [data |-> data,
         writers |-> (IF path \in DOMAIN files THEN files[path].writers ELSE {}) \cup {i}])

\* Task i runs on.  A monitor thread that is awake tests its loop
\* condition: it appends a sample and sleeps for the interval, or saves its
\* samples.  A benchmark saves its results.
TaskStep(i) ==
    /\ i \in 1..Len(tasks.launched)
    /\ LET task == tasks.launched[i] IN
       /\ task.pc = "loop" /\ task.wakes <= now
       /\ IF task.kind = "monitor" /\ sampling(now - task.start_time, task.duration)
          THEN tasks' = [tasks EXCEPT
                           !.launched[i].data = Append(@, [task |-> i, timestamp |-> now]),
                           !.launched[i].wakes = now + task.interval]
          ELSE tasks' = [tasks EXCEPT
                           !.launched[i].pc = "saved",
                           !.launched[i].data =
                               IF task.kind = "monitor" THEN @
                               ELSE <<[task |-> i, timestamp |-> now]>>,
                           !.files = written(@, i, task.output_file,
                                             IF task.kind = "monitor" THEN task.data
                                             ELSE <<[task |-> i, timestamp |-> now]>>)]
    /\ UNCHANGED <<now, rs, h, file, ss, sched, trail, ops, budget, procs, reg, mon, probe>>

\* A second passes.
Tick ==
    /\ now < MaxClock
    /\ now' = now + 1
    /\ UNCHANGED <<rs, h, file, ss, sched, trail, ops, budget, procs, reg, mon, probe, tasks>>

InitLaunches ==
    /\ now = 1
    /\ rs = IdleResolver
    /\ h = NoHistory
    /\ budget = 0
    /\ file = LaunchFile
    /\ ss = IdleStart
    /\ sched = {}
    /\ trail = <<>>
    /\ ops = 0
    /\ procs = IdleProcs
    /\ reg = NoRegistryHistory
    /\ mon = IdleMonitors
    /\ probe = IdleProbe
    /\ tasks = NoTasks

NextLaunches ==
    \/ LaunchMonitor
    \/ LaunchBenchmark
    \/ \E i \in 1..MaxLaunches : TaskStep(i)
    \/ Tick

SpecLaunches == InitLaunches /\ [][NextLaunches]_vars

----------------------------------------------------------------------------
(* The health checks (deployment/health_checks), as start_service calls    *)
(* them for a job whose node it has stored, and what it records of them.   *)

\* Seconds a request of a health check may take to come back.
MaxRequest == 2

\* test_ollama's max_wait_time and check_interval; start_service passes
\* the host only.
OllamaMaxWait == 300
OllamaInterval == 10

\* The registry after add_job and update_job(node=...) of start_service.
ProbeFile(service_name) ==
    update_job(add_job(OkFile(EmptyDb), "101", "service", service_name, None,
                       "{partition: gpu}", None, 0),
               "101", [node |-> "node07"])

\* health_check_func(node) is called.
HealthCheckCall ==
    /\ ss.pc = "probing" /\ probe.pc = "idle"
    /\ probe' = [IdleProbe EXCEPT
                   !.pc = IF ServiceRecipes[ss.service_name] = "ollama"
                          THEN "poll" ELSE "connect",
                   !.health_check = ServiceRecipes[ss.service_name],
                   !.max_wait_time = OllamaMaxWait,
                   !.check_interval = OllamaInterval,
                   !.start_time = now]
    /\ UNCHANGED <<now, rs, h, file, ss, sched, trail, ops, budget, procs, reg, mon, tasks>>

\* test_ollama, one pass of the loop that waits for /api/tags: the GET
\* answers 200 and the loop is left, or it answers otherwise or raises
\* RequestException and the check sleeps.
TestOllamaPoll ==
    /\ probe.pc = "poll"
    /\ now - probe.start_time < probe.max_wait_time
    /\ \E response \in {"200", "503", "RequestException"}, d \in 0..MaxRequest :
         IF response = "200"
         THEN /\ probe' = [probe EXCEPT !.pc = "post", !.api_accessible = TRUE]
              /\ now' = now + d
         ELSE /\ probe' = probe
              /\ now' = now + d + probe.check_interval
    /\ UNCHANGED <<rs, h, file, ss, sched, trail, ops, budget, procs, reg, mon, tasks>>

\* test_ollama: the waiting time is over and the API never answered.
TestOllamaGiveUp ==
    /\ probe.pc = "poll"
    /\ ~(now - probe.start_time < probe.max_wait_time)
    /\ probe' = [probe EXCEPT !.pc = "returned", !.ret = "False"]
    /\ UNCHANGED <<now, rs, h, file, ss, sched, trail, ops, budget, procs, reg, mon, tasks>>

\* test_ollama: the POST to /api/generate with timeout=remaining_time.
\* requests refuses a timeout that is not positive with ValueError, which
\* is no RequestException; a request that times out has taken the
\* remaining time.
TestOllamaPost ==
    /\ probe.pc = "post"
    /\ LET remaining_time == probe.max_wait_time - (now - probe.start_time) IN
       IF remaining_time <= 0
       THEN /\ probe' = [probe EXCEPT !.pc = "raised", !.raised = "ValueError"]
            /\ now' = now
       ELSE \E response \in {"200", "404", "Timeout", "ConnectionError"},
               d \in 0..MaxRequest :
              /\ d < remaining_time
              /\ probe' = [probe EXCEPT
                             !.pc = "returned",
                             !.answer = IF response = "200" THEN "valid" ELSE response,
                             !.ret = IF response = "200" THEN "True" ELSE "False"]
              /\ now' = IF response = "Timeout" THEN now + remaining_time ELSE now + d
    /\ UNCHANGED <<rs, h, file, ss, sched, trail, ops, budget, procs, reg, mon, tasks>>

\* test_postgres: connect, SELECT 1, fetchone; the result is printed, the
\* exceptions are printed, and the function ends without a return.
TestPostgres ==
    /\ probe.pc = "connect" /\ probe.health_check = "postgres"
    /\ \E outcome \in {"1", "0", "OperationalError", "Exception"}, d \in 0..MaxRequest :
         /\ probe' = [probe EXCEPT
                        !.pc = "returned",
                        !.answer = IF outcome = "1" THEN "valid" ELSE outcome,
                        !.ret = None]
         /\ now' = now + d
    /\ UNCHANGED <<rs, h, file, ss, sched, trail, ops, budget, procs, reg, mon, tasks>>

\* test_chroma: connect, create the collection, add a document, query,
\* delete the collection; True unless one of them raised.  What the query
\* returned is not looked at.
TestChroma ==
    /\ probe.pc = "connect" /\ probe.health_check = "chroma"
    /\ \E outcome \in {"document", "nothing", "Exception"}, d \in 0..MaxRequest :
         /\ probe' = [probe EXCEPT
                        !.pc = "returned",
                        !.answer = IF outcome = "document" THEN "valid" ELSE outcome,
                        !.ret = IF outcome = "Exception" THEN "False" ELSE "True"]
         /\ now' = now + d
    /\ UNCHANGED <<rs, h, file, ss, sched, trail, ops, budget, procs, reg, mon, tasks>>

\* Back in start_service: the value returned decides the status stored;
\* an exception of the health check is not among those start_service
\* catches and ends the call.
HealthCheckResult ==
    /\ ss.pc = "probing" /\ probe.pc \in {"returned", "raised"}
    /\ IF probe.pc = "raised"
       THEN /\ ss' = [ss EXCEPT !.pc = "raised"]
            /\ UNCHANGED <<file, trail>>
       ELSE /\ ss' = [ss EXCEPT !.pc = "done", !.ret = ss.job_id, !.health = probe.ret,
                                !.wrote = @ \cup {health_status(probe.ret)},
                                !.events = @ \o <<"probe_returned", "status_written">>]
            /\ file' = update_job(file, ss.job_id, [status |-> health_status(probe.ret)])
            /\ trail' = Log([op |-> "start_service", job_id |-> ss.job_id, pre |-> file], 1)
    /\ UNCHANGED <<now, rs, h, sched, ops, budget, procs, reg, mon, probe, tasks>>

\* start_service has stored the node of job 101 and comes to the health
\* check of its recipe.
InitProbe ==
    /\ now = 1
    /\ rs = IdleResolver
    /\ h = NoHistory
    /\ budget = 0
    /\ \E service_name \in {s \in DOMAIN ServiceRecipes :
                              ServiceRecipes[s] \in health_check_mapping} :
         /\ file = ProbeFile(service_name)
         /\ ss = [IdleStart EXCEPT !.pc = "check", !.service_name = service_name,
                                   !.job_id = "101", !.node = "node07",
                                   !.created = get_job(ProbeFile(service_name), "101")]
    /\ sched = {}
    /\ trail = <<>>
    /\ ops = 0
    /\ procs = IdleProcs
    /\ reg = NoRegistryHistory
    /\ mon = IdleMonitors
    /\ probe = IdleProbe
    /\ tasks = NoTasks

NextProbe ==
    \/ StartHealthCheck
    \/ HealthCheckCall
    \/ TestOllamaPoll
    \/ TestOllamaGiveUp
    \/ TestOllamaPost
    \/ TestPostgres
    \/ TestChroma
    \/ HealthCheckResult

SpecProbe == InitProbe /\ [][NextProbe]_vars

----------------------------------------------------------------------------
(* Properties.                                                             *)

Elapsed == rs.returned_at - rs.start_time

\* C1: when the scheduler's k-th answer is the first to show RUNNING on a
\* node, every earlier answer having been PENDING or CONFIGURING, the call
\* has returned exactly that node, after at least 1 and at most k+1 queries.
C1_ReturnsRunningNode ==
    (h.last = "running" /\ h.before \in {"pending", "waiting"})
        => /\ rs.pc = "done"
           /\ rs.result = h.lastNode
           /\ rs.queries >= 1
           /\ rs.queries <= h.n + 1

C1_Witness ==
    /\ rs.pc = "done" /\ h.last = "running" /\ h.before = "waiting"
    /\ h.n = 3 /\ rs.result = "node08" /\ rs.queries = 3

\* C2: when the first answer shows a JobState other than PENDING,
\* CONFIGURING and RUNNING (or none at all), the call has returned None
\* after that one query, without sleeping.
C2_TerminalStateReturnsAtOnce ==
    (h.n = 1 /\ h.last = "terminal")
        => /\ rs.pc = "done"
           /\ rs.result = None
           /\ rs.queries = 1
           /\ rs.sleeps = 0

C2_Witness ==
    /\ h.n = 1 /\ h.last = "terminal" /\ rs.pc = "done"
    /\ rs.max_wait_time = DefaultMaxWait /\ Elapsed < rs.max_wait_time

\* C3 as stated: with every answer PENDING the call returns None, not
\* before max_wait_time has elapsed and no later than max_wait_time plus
\* one check_interval.
C3_TimeoutWithinOneInterval ==
    (rs.pc = "done" /\ AllPending)
        => /\ rs.result = None
           /\ Elapsed >= rs.max_wait_time
           /\ Elapsed <= rs.max_wait_time + rs.check_interval

\* C3, amended: with every answer PENDING the call returns None, not
\* before max_wait_time has elapsed and no later than max_wait_time plus
\* the time its last iteration (status query and sleep) took.
C3_TimeoutWithinLastIteration ==
    (rs.pc = "done" /\ AllPending)
        => /\ rs.result = None
           /\ rs.timeout
           /\ Elapsed >= rs.max_wait_time
           /\ Elapsed <= rs.max_wait_time + h.lastIter

C3_Witness ==
    /\ rs.pc = "done" /\ AllPending /\ h.n = 3 /\ rs.max_wait_time = 3
    /\ Elapsed > rs.max_wait_time + rs.check_interval

\* C4: when a status query fails the call has returned None: that query
\* was the last one, it was not followed by a sleep, and the budget had
\* not run out.
C4_FailedQueryAborts ==
    h.last = "failed"
        => /\ rs.pc = "done"
           /\ rs.result = None
           /\ ~rs.timeout
           /\ rs.queries = h.n
           /\ rs.sleeps = h.n - 1

C4_Witness ==
    /\ h.last = "failed" /\ h.n = 3 /\ h.before = "pending" /\ rs.pc = "done"
    /\ rs.max_wait_time = DefaultMaxWait /\ Elapsed < rs.max_wait_time - rs.check_interval

\* The three latest calls were add_job(j, ...), update_job(j,
\* status="healthy"), get_job(j), in that order.
RoundTrip(j) ==
    /\ Len(trail) = 3
    /\ trail[3].op = "add_job" /\ trail[3].job_id = j
    /\ trail[2].op = "update_job" /\ trail[2].job_id = j
    /\ trail[2].kwargs = [status |-> "healthy"]
    /\ trail[1].op = "get_job" /\ trail[1].job_id = j

\* C5: after add_job, update_job(status="healthy") and get_job on one job
\* id, get_job returns the record add_job stored with status "healthy" and
\* every other field as stored, and the records under other ids are the
\* ones that were there before add_job.
C5_RoundTrip ==
    \A j \in JobIds :
        RoundTrip(j) =>
            LET stored == get_job(trail[2].pre, j)
                a == trail[3].args
            IN  /\ stored = {[job_id |-> j, job_type |-> a.job_type,
                              service_name |-> a.service_name, node |-> a.node,
                              start_time |-> trail[3].at, status |-> "running",
                              config |-> OrEmptyDict(a.config),
                              parent_job |-> a.parent_job]}
                /\ trail[1].ret = {[r EXCEPT !.status = "healthy"] : r \in stored}
                /\ \A k \in JobIds \ {j} : get_job(file, k) = get_job(trail[3].pre, k)

C5_Witness ==
    /\ RoundTrip("102")
    /\ get_job(trail[3].pre, "102") # {}
    /\ get_job(trail[3].pre, "101") # {}
    /\ \E r \in trail[1].ret : r.status = "healthy" /\ r.node = "node07"

\* C6: update_job on a job id the registry does not hold creates no
\* record and leaves the file as it was.
C6_UpdateUnknownJob ==
    (trail # <<>> /\ trail[1].op = "update_job"
     /\ get_job(trail[1].pre, trail[1].job_id) = {})
        => /\ file = trail[1].pre
           /\ get_job(file, trail[1].job_id) = {}

C6_Witness ==
    /\ trail # <<>> /\ trail[1].op = "update_job"
    /\ trail[1].job_id = "102"
    /\ get_job(trail[1].pre, "102") = {}
    /\ get_job(trail[1].pre, "101") # {}
    /\ trail[1].kwargs = [status |-> "healthy"]

\* start_service has just returned.
Returned == ss.pc = "done" /\ trail # <<>> /\ trail[1].op = "start_service"

\* C7: when start_service returns after submitting job j, resolving node n
\* and a health check that returned True, the record of j has job_id j,
\* node n and status "healthy".
C7_HealthyRecord ==
    (Returned /\ ss.job_id \in JobIds /\ rs.result \in Nodes /\ ss.health = "True")
        => \E r \in get_job(file, ss.job_id) :
              /\ get_job(file, ss.job_id) = {r}
              /\ r.job_id = ss.job_id
              /\ r.node = rs.result
              /\ r.status = "healthy"

C7_Witness ==
    /\ Returned /\ ss.job_id = "102" /\ rs.result = "node07" /\ ss.health = "True"
    /\ ss.service_name = "ollama"
    /\ \E r \in get_job(file, "102") : r.status = "healthy" /\ r.node = "node07"

\* C8: when start_service returns for a job whose every status query
\* answered PENDING (and which nobody cancelled), it returns the job id,
\* the record is the one add_job stored, without a node, and the call has
\* written neither "healthy" nor "unhealthy".
C8_PendingJobLeftAsCreated ==
    (Returned /\ ss.job_id \in JobIds /\ h.n >= 1 /\ AllPending
     /\ ss.job_id \notin sched)
        => /\ ss.ret = ss.job_id
           /\ ss.created # {}
           /\ get_job(file, ss.job_id) = ss.created
           /\ \A r \in get_job(file, ss.job_id) : r.node = None
           /\ ss.wrote \cap {"healthy", "unhealthy"} = {}

C8_Witness ==
    /\ Returned /\ ss.job_id = "101" /\ AllPending /\ rs.timeout
    /\ rs.queries = 60 /\ "101" \notin sched /\ ss.ret = "101"
    /\ \E r \in get_job(file, "101") : r.status = "running" /\ r.node = None

\* Position of the first occurrence of an event in the call's events; 0: none.
Pos(e) ==
    IF \E i \in 1..Len(ss.events) : ss.events[i] = e
    THEN CHOOSE i \in 1..Len(ss.events) :
            /\ ss.events[i] = e
            /\ \A k \in 1..(i - 1) : ss.events[k] # e
    ELSE 0

Before(a, b) == Pos(b) > 0 => (Pos(a) > 0 /\ Pos(a) < Pos(b))

\* C9: within one start_service call the record is created before the
\* first status query, the resolver returns a node before the node is
\* stored, the node is stored before the health check is called, the
\* health check returns before the status is written, nothing happens
\* twice, and no health check is called for a job without a node.
C9_EventOrder ==
    /\ Before("add_job", "query")
    /\ Before("node_returned", "node_written")
    /\ Before("node_written", "probe_invoked")
    /\ Before("probe_invoked", "probe_returned")
    /\ Before("probe_returned", "status_written")
    /\ \A i, k \in 1..Len(ss.events) : ss.events[i] = ss.events[k] => i = k
    /\ (rs.queries >= 1 /\ ss.pc = "resolve") => get_job(file, ss.job_id) # {}
    /\ (ss.wrote \cap {"healthy", "unhealthy"} # {}) => Pos("status_written") > 0
    /\ (Pos("probe_invoked") > 0) =>
          /\ rs.result \in Nodes
          /\ \E r \in get_job(file, ss.job_id) : r.node = rs.result

C9_Witness ==
    ss.events = <<"add_job", "query", "node_returned", "node_written",
                  "probe_invoked", "probe_returned", "status_written">>

\* C10: after stop_service(job_id) whose cancellation succeeded, the
\* record of job_id, if there was one, has status "stopped" and its other
\* fields as before; after one whose cancellation failed the file is as it
\* was.
C10_StopService ==
    (trail # <<>> /\ trail[1].op = "stop_service")
        => LET pre == trail[1].pre
               j == trail[1].job_id
           IN  IF trail[1].cancelled
               THEN get_job(file, j) = {[r EXCEPT !.status = "stopped"] : r \in get_job(pre, j)}
               ELSE file = pre

C10_Witness ==
    /\ trail # <<>> /\ trail[1].op = "stop_service" /\ trail[1].cancelled
    /\ trail[1].job_id = "102"
    /\ \E r \in get_job(trail[1].pre, "102") : r.status = "healthy" /\ r.node = "node08"
    /\ \E r \in get_job(file, "102") : r.status = "stopped" /\ r.node = "node08"

C10_WitnessFailed ==
    /\ trail # <<>> /\ trail[1].op = "stop_service" /\ ~trail[1].cancelled
    /\ \E r \in get_job(file, trail[1].job_id) : r.status = "healthy"

\* C11 as stated: whatever the processes do to the registry short of
\* remove_job and clear_all, and however their steps interleave, a stored
\* record that has had a node has one.
C11_NodeNeverReverts ==
    ~reg.deleted =>
        \A j \in reg.hadNode : \A r \in get_job(file, j) : r.node # None

\* C11, amended: the same, as long as no two mutations of the registry
\* have been under way at once.
C11_NodeNeverRevertsSerial ==
    (~reg.deleted /\ ~reg.raced) =>
        \A j \in reg.hadNode : \A r \in get_job(file, j) : r.node # None

C11_Witness ==
    /\ ~reg.deleted /\ ~reg.raced /\ ops = 3
    /\ trail # <<>> /\ trail[1].op = "update_job"
    /\ trail[1].call.job_id = "102" /\ trail[1].call.kwargs = [status |-> "stopped"]
    /\ \E r \in get_job(OkFile(trail[1].db), "102") :
          r.node = "node08" /\ r.status = "healthy"
    /\ \E r \in get_job(file, "102") : r.node = "node08" /\ r.status = "stopped"

\* C12: once stop_service has set the record of the job a start_service
\* call is working on to "stopped", the writes that call goes on to make
\* (the node, the health check's outcome) leave the status "stopped".
C12_StoppedStaysStopped ==
    (/\ trail # <<>> /\ trail[1].op \in {"update_job", "start_service"}
     /\ ss.job_id \in JobIds
     /\ \E r \in get_job(trail[1].pre, ss.job_id) : r.status = "stopped")
        => \E r \in get_job(file, ss.job_id) : r.status = "stopped"

\* C13: when no save is under way the file holds exactly what the latest
\* save wrote, which is the store that writer had loaded with its own
\* change made to it; and a mutation that ran with no other under way
\* had loaded the store the one before it left.
C13_LastWriterWins ==
    (trail # <<>> /\ \A p \in Procs : procs[p].pc # "write")
        => /\ file = OkFile(trail[1].data)
           /\ \E t \in 1..now : trail[1].data = to_save(trail[1].call, trail[1].db, t)
           /\ (~trail[1].raced /\ trail[1].op # "clear_all")
                 => trail[1].stores = {trail[1].db}

\* C14: what a reading call loaded is a complete store: the one saved
\* last, or the one a mutation under way at that moment is about to leave.
C14_ReaderSeesCompleteStore ==
    \A p \in Procs :
        reads(procs[p].call) => procs[p].db \in procs[p].stores

SavedTenByTwo ==
    /\ mon.thread.pc = "saved"
    /\ mon.thread.duration = 10 /\ mon.thread.interval = 2
    /\ mon.thread.output_file \in DOMAIN mon.files

NonDecreasing(s) == \A i, j \in 1..Len(s) : i < j => s[i].timestamp <= s[j].timestamp

\* C16 as stated: a monitor run with duration=10 and interval=2 saves 5 or
\* 6 samples, with non-decreasing timestamps.
C16_FiveOrSixSamples ==
    SavedTenByTwo =>
        LET s == mon.files[mon.thread.output_file]
        IN  Len(s) \in {5, 6} /\ NonDecreasing(s)

\* C16, amended: it saves at least 1 and at most 5 samples, 5 of them if
\* collecting and oversleeping took less than one interval in all; the
\* timestamps are non-decreasing, one interval or more apart, and less
\* than the duration after the start.
C16_AtMostFiveSamples ==
    SavedTenByTwo =>
        LET s == mon.files[mon.thread.output_file]
        IN  /\ Len(s) >= 1 /\ Len(s) <= 5
            /\ mon.thread.lag < mon.thread.interval => Len(s) = 5
            /\ NonDecreasing(s)
            /\ \A i \in 1..Len(s) :
                 /\ s[i].timestamp - mon.thread.start_time < mon.thread.duration
                 /\ i > 1 => s[i].timestamp >= s[i - 1].timestamp + mon.thread.interval

C16_Witness ==
    /\ SavedTenByTwo /\ mon.thread.lag = 1
    /\ Len(mon.files[mon.thread.output_file]) = 5
    /\ mon.files[mon.thread.output_file][5].timestamp = mon.thread.start_time + 9

C16_WitnessFewer ==
    /\ SavedTenByTwo /\ mon.thread.lag = 2
    /\ Len(mon.files[mon.thread.output_file]) = 4

\* Every sample taken so far carries the collector's error.
AllFailed(s) == s # <<>> /\ \A i \in 1..Len(s) : "error" \in DOMAIN s[i].service

\* C17: an endpoint that fails does not end the sampling loop; and when it
\* failed at every sample, the loop has run for the whole duration and the
\* file holds every sample taken, enough of them to span the duration, each
\* with an error in its service section and with its system section.
C17_CollectorErrorsRecorded ==
    /\ mon.thread.died # "service"
    /\ (mon.thread.pc = "saved" /\ AllFailed(mon.thread.data)) =>
          /\ mon.thread.output_file \in DOMAIN mon.files
          /\ LET s == mon.files[mon.thread.output_file]
             IN  /\ s = mon.thread.data
                 /\ now - mon.thread.start_time >= mon.thread.duration
                 /\ Len(s) * mon.thread.interval + mon.thread.lag >= mon.thread.duration
                 /\ \A i \in 1..Len(s) :
                      /\ s[i].service = [error |-> "ConnectionError"]
                      /\ "cpu_usage" \in DOMAIN s[i].system

C17_Witness ==
    /\ SavedTenByTwo /\ AllFailed(mon.thread.data)
    /\ Len(mon.files[mon.thread.output_file]) = 5

\* C18: once start() is over, by the duration running out or by an
\* exception, the output file holds the samples taken.
C18_SamplesSavedOnExit ==
    mon.thread.pc \in {"saved", "died"} =>
        /\ mon.thread.output_file \in DOMAIN mon.files
        /\ mon.files[mon.thread.output_file] = mon.thread.data

\* The registry holds no node for the job: no record, or one without a node.
NoTarget(f, job_id) == \A r \in get_job(f, job_id) : ~Truthy(r.node)

C19_WitnessBenchmark ==
    /\ trail # <<>> /\ trail[1].op = "run_benchmark" /\ mon.bench.pc = "done"
    /\ rs.timeout /\ rs.queries = 60 /\ ~mon.bench.invoked

\* C20: when the registry holds no node for the job and the scheduler
\* reports it RUNNING on a node, start_monitor starts the monitor on that
\* node; and run_benchmark asks the scheduler only when the registry holds
\* no node for the job.
C20_ResolverFallback ==
    /\ (/\ trail # <<>> /\ trail[1].op = "start_monitor" /\ trail[1].tracker
        /\ trail[1].service_name = "ollama"
        /\ NoTarget(file, trail[1].job_id) /\ trail[1].running \in Nodes)
          => /\ trail[1].ret # None
             /\ mon.thread.endpoint = endpoint_of("ollama", trail[1].running)
    /\ (mon.bench.pc # "idle" /\ ~NoTarget(file, mon.bench.job_id)) => rs.queries = 0

\* C21: the step in which start_monitor returns a monitor id takes no time
\* and leaves the monitor thread at the start of its loop, with no sample
\* taken and no result file written.
C21_ReturnsBeforeSampling ==
    [][(/\ ops' = ops + 1 /\ trail'[1].op = "start_monitor"
        /\ trail'[1].ret \notin {None, "TypeError"})
         => /\ mon'.ret = trail'[1].ret
            /\ mon'.ret \in mon'.active_monitors
            /\ mon'.thread.pc = "loop"
            /\ mon'.thread.data = <<>>
            /\ mon'.thread.output_file \notin DOMAIN mon'.files
            /\ now' = now]_vars

C21_Witness ==
    /\ trail # <<>> /\ trail[1].op = "stop_monitor"
    /\ trail[1].pre.ret = trail[1].monitor_id
    /\ trail[1].pre.thread.pc = "sleep" /\ Len(trail[1].pre.thread.data) = 1
    /\ mon.thread.pc = "sleep" /\ Len(mon.thread.data) = 2

\* C23: stop_monitor(monitor_id) removes that entry from active_monitors
\* and nothing else: the thread, the result files, the benchmark run, the
\* registry file and the clock are as before, and for an id that is not
\* tracked nothing changes; and a thread, tracked or not, that has left
\* its loop has run for its duration and has written its samples.
C23_StopOnlyUntracks ==
    /\ [][(ops' = ops + 1 /\ trail'[1].op = "stop_monitor")
            => /\ mon'.active_monitors = mon.active_monitors \ {trail'[1].monitor_id}
               /\ trail'[1].monitor_id \notin mon.active_monitors => mon' = mon
               /\ mon'.thread = mon.thread /\ mon'.files = mon.files
               /\ mon'.bench = mon.bench
               /\ file' = file /\ now' = now]_vars
    /\ [](mon.thread.pc = "saved"
            => /\ now - mon.thread.start_time >= mon.thread.duration
               /\ mon.thread.output_file \in DOMAIN mon.files
               /\ mon.files[mon.thread.output_file] = mon.thread.data)

C23_Witness ==
    /\ trail # <<>> /\ trail[1].op = "stop_monitor"
    /\ trail[1].pre.active_monitors = {OldMonitor, trail[1].monitor_id}
    /\ trail[1].pre.thread.pc = "loop" /\ Len(trail[1].pre.thread.data) = 1
    /\ mon.active_monitors = {OldMonitor}
    /\ mon.thread.pc = "saved" /\ Len(mon.thread.data) = 3
    /\ mon.files[mon.thread.output_file] = mon.thread.data

\* C22: launches differ in their result files, monitor launches in their
\* ids too; no result file has been written by more than one task; and
\* every monitor launched is the one active_monitors holds under its id.
C22_DistinctLaunches ==
    /\ \A i, j \in 1..Len(tasks.launched) :
         i # j => /\ tasks.launched[i].output_file # tasks.launched[j].output_file
                  /\ (tasks.launched[i].kind = "monitor"
                      /\ tasks.launched[j].kind = "monitor")
                        => tasks.launched[i].id # tasks.launched[j].id
    /\ \A path \in DOMAIN tasks.files : Cardinality(tasks.files[path].writers) <= 1
    /\ \A i \in 1..Len(tasks.launched) :
         tasks.launched[i].kind = "monitor"
           => tasks.active_monitors[tasks.launched[i].id] = i

\* C24: when start_service has returned after the health check, the
\* record's status is "healthy" exactly if the service gave the expected
\* answer to the check's request, and "unhealthy" exactly if it did not.
C24_StatusTellsAnswer ==
    (ss.pc = "done" /\ probe.pc = "returned") =>
        \A r \in get_job(file, ss.job_id) :
            /\ r.status = "healthy" <=> probe.answer = "valid"
            /\ r.status = "unhealthy" <=> probe.answer # "valid"

\* C25: a health check never raises, and what it returns is True or False.
C25_DefiniteBoolean ==
    /\ probe.pc # "raised"
    /\ ss.pc # "raised"
    /\ probe.pc = "returned" => probe.ret \in {"True", "False"}

\* C26: when start_service returns for a job for which get_job_node gave
\* no node, the job's record has no node and a status other than the one
\* it was created with, and no health check was called.
C26_UnreachableMarkedFailed ==
    (Returned /\ ss.job_id \in JobIds /\ rs.pc = "done" /\ ~Truthy(rs.result))
        => /\ Pos("probe_invoked") = 0
           /\ Pos("node_written") = 0
           /\ \E r \in get_job(file, ss.job_id) :
                /\ r.node = None
                /\ \A c \in ss.created : r.status # c.status

\* C27: when start_service returns because the service is unknown, its
\* script is missing, sbatch failed or printed no job id, it returns None,
\* has made no status query, called no health check and left the registry
\* file as it was; for a job submitted for which no node was found it
\* returns the job id.
C27_FailedSubmission ==
    /\ (ss.pc = "done" /\ ss.job_id = None)
          => /\ ss.ret = None /\ ss.ret \notin JobIds
             /\ rs.pc = "idle" /\ rs.queries = 0
             /\ ss.events = <<>> /\ ss.wrote = {} /\ ss.created = {}
             /\ (trail # <<>> /\ trail[1].op = "start_service")
                   => /\ trail[1].cause \in {"service", "script", "failed", "unparsable"}
                      /\ file = trail[1].pre
    /\ (Returned /\ ss.job_id \in JobIds /\ rs.pc = "done" /\ ~Truthy(rs.result))
          => ss.ret = ss.job_id /\ ss.ret # None

C27_Witness ==
    /\ ss.pc = "done" /\ ss.job_id = None /\ ss.service_name = "ollama"
    /\ trail # <<>> /\ trail[1].op = "start_service" /\ trail[1].cause = "unparsable"
    /\ file = trail[1].pre /\ file.kind = "ok" /\ DOMAIN file.db = {"101", "102"}

C27_WitnessUnknown ==
    /\ ss.pc = "done" /\ ss.service_name = "nosuch"
    /\ trail # <<>> /\ trail[1].op = "start_service" /\ trail[1].cause = "service"

\* The file as the i-th latest operation left it.
FileAfter(i) == IF i = 1 THEN file ELSE trail[i - 1].pre

\* C28: on a backing file that is missing or does not parse, get_job
\* returns no record, get_all_jobs an empty mapping and get_jobs_by_type
\* no record, as they do on an empty store, and update_job and remove_job
\* leave the file as it is.
C28_UnreadableStoreIsEmpty ==
    \A i \in 1..Len(trail) :
        trail[i].pre.kind \in {"corrupt", "missing"} =>
            /\ trail[i].op = "get_job" =>
                 /\ trail[i].ret = {}
                 /\ trail[i].ret = get_job(OkFile(EmptyDb), trail[i].job_id)
            /\ trail[i].op = "get_all_jobs" =>
                 /\ trail[i].ret = EmptyDb
                 /\ trail[i].ret = get_all_jobs(OkFile(EmptyDb))
            /\ trail[i].op = "get_jobs_by_type" =>
                 /\ trail[i].ret = {}
                 /\ trail[i].ret = get_jobs_by_type(OkFile(EmptyDb), trail[i].job_type)
            /\ trail[i].op \in {"get_job", "get_all_jobs", "get_jobs_by_type",
                                "update_job", "remove_job"}
                 => FileAfter(i) = trail[i].pre

C28_Witness ==
    /\ Len(trail) = 3
    /\ trail[3].op = "get_job" /\ trail[3].pre = CorruptFile /\ trail[3].ret = {}
    /\ trail[2].op = "update_job" /\ trail[2].pre = CorruptFile
    /\ trail[1].op = "remove_job" /\ trail[1].pre = CorruptFile
    /\ file = CorruptFile

C28_WitnessMissing ==
    /\ Len(trail) = 2
    /\ trail[2].op = "get_all_jobs" /\ trail[2].pre = MissingFile
    /\ trail[2].ret = EmptyDb
    /\ trail[1].op = "get_jobs_by_type" /\ trail[1].pre = MissingFile
    /\ trail[1].ret = {} /\ file = MissingFile

\* C29: when add_job(job_id, ...) has saved and no later save has begun,
\* the file holds under job_id the record add_job made, so that get_job
\* returns it, and under every other key the record add_job loaded.
C29_AddJobStored ==
    (trail # <<>> /\ trail[1].op = "add_job" /\ file.kind # "empty") =>
        LET j == trail[1].call.job_id IN
        /\ get_job(file, j) = {trail[1].data[j]}
        /\ \A r \in get_job(file, j) :
             /\ r.job_id = j /\ r.status = "running" /\ r.node = None
        /\ \A k \in DOMAIN trail[1].db \ {j} : get_job(file, k) = {trail[1].db[k]}

\* C30 as stated: a get_job_node call that has returned has returned a
\* node or None, max_wait_time plus one check_interval after it was
\* called at the latest.
C30_ReturnsWithinOneInterval ==
    rs.pc = "done"
        => /\ rs.result \in Nodes \cup {None}
           /\ Elapsed <= rs.max_wait_time + rs.check_interval

\* C30, amended: every get_job_node call returns, whatever the scheduler
\* answers; it returns a node or None; and at no time, up to and including
\* its return, is it later than max_wait_time plus the time its latest
\* iteration (status query and sleep) took.
C30_ReturnsWithinLastIteration ==
    /\ [](rs.pc = "done"
            => /\ rs.result \in Nodes \cup {None}
               /\ Elapsed <= rs.max_wait_time + h.lastIter)
    /\ [](rs.pc \in {"loop", "sleep"}
            => now - rs.start_time <= rs.max_wait_time + h.lastIter)
    /\ (rs.pc \in {"loop", "sleep"} ~> rs.pc = "done")

C30_Witness ==
    /\ rs.pc = "done" /\ rs.timeout /\ rs.result = None
    /\ h.last = "placeholder" /\ h.before = "other" /\ h.n = 2
    /\ rs.max_wait_time = 2 /\ rs.check_interval = 1
    /\ Elapsed = 4

\* C31: an answer RUNNING without a valid NodeList (missing, empty or
\* "(null)") does not end the call: get_job_node sleeps check_interval or
\* longer after it and tests its budget again, so that only the timeout
\* can end the call after such an answer; what it returns is a node or
\* None, never the placeholder; and an answer RUNNING on a node ends it
\* with that node.
C31_PlaceholderKeepsPolling ==
    /\ rs.result \in Nodes \cup {None}
    /\ h.last = "placeholder" =>
          /\ rs.result = None
          /\ rs.pc \in {"sleep", "loop", "done"}
          /\ rs.pc = "sleep" => rs.sleeps = rs.queries - 1
          /\ rs.pc = "loop" => rs.sleeps = rs.queries /\ h.lastIter >= rs.check_interval
          /\ rs.pc = "done" => rs.timeout /\ rs.sleeps = rs.queries
    /\ h.last = "running" =>
          /\ rs.pc = "done" /\ ~rs.timeout
          /\ rs.result = h.lastNode /\ rs.result \in Nodes

C31_Witness ==
    /\ rs.pc = "done" /\ h.n = 3 /\ h.before = "other" /\ h.last = "running"
    /\ rs.result = "node08" /\ rs.queries = 3 /\ rs.sleeps = 2

\* a / b, rounded up.
CeilDiv(a, b) == (a + b - 1) \div b

\* C35: at no time has a get_job_node call made more than
\* ceil(max_wait_time / check_interval) status queries; with the defaults,
\* no more than 60.
C35_QueryBound ==
    /\ rs.queries <= CeilDiv(rs.max_wait_time, rs.check_interval)
    /\ (rs.max_wait_time = DefaultMaxWait /\ rs.check_interval = DefaultInterval)
          => rs.queries <= 60

C35_Witness ==
    /\ rs.pc = "done" /\ rs.timeout
    /\ rs.max_wait_time = DefaultMaxWait /\ rs.check_interval = DefaultInterval
    /\ rs.queries = 60 /\ h.last = "placeholder"

C35_WitnessRoundedUp ==
    /\ rs.pc = "done" /\ rs.timeout
    /\ rs.max_wait_time = 3 /\ rs.check_interval = 2 /\ rs.queries = 2

\* C33: from the submission until start_service has the outcome of the
\* health check, the job's record, unless the job was stopped meanwhile,
\* has status "submitted".
C33_SubmittedUntilProbed ==
    (ss.pc \in {"resolve", "check", "probing"} /\ ss.job_id \notin sched)
        => /\ \A c \in ss.created : c.status = "submitted"
           /\ \E r \in get_job(file, ss.job_id) : r.status = "submitted"

\* How often the call has done e.
Count(e) == Cardinality({i \in 1..Len(ss.events) : ss.events[i] = e})

\* C36: a start_service call calls the health check once at most; once it
\* is past the lookup of the health check it has called it once if it
\* submitted a job, got a node for it and the recipe names a health check,
\* and not at all otherwise; once the check has returned it is not called
\* again, whatever it returned; and only stop_service calls cancel jobs.
C36_OneHealthCheck ==
    /\ Count("probe_invoked") <= 1
    /\ Count("probe_returned") <= Count("probe_invoked")
    /\ ss.pc \in {"probing", "done", "raised"} =>
          (Count("probe_invoked") = 1
             <=> /\ ss.job_id \in JobIds
                 /\ Truthy(rs.result)
                 /\ ServiceRecipes[ss.service_name] \in health_check_mapping)
    /\ Count("probe_returned") = 1 => ss.pc = "done" /\ ss.health \in {"True", "False", None}
    /\ Cardinality(sched) <= ops

C36_Witness ==
    /\ ss.pc = "done" /\ ss.service_name = "chroma" /\ ss.health = "False"
    /\ Count("probe_invoked") = 1 /\ Count("probe_returned") = 1
    /\ sched = {} /\ ops = 0
    /\ \E r \in get_job(file, ss.job_id) : r.status = "unhealthy"

C36_WitnessNoCheck ==
    /\ ss.pc = "done" /\ ss.service_name = "echo_service" /\ rs.result = "node07"
    /\ Count("probe_invoked") = 0


-----------------------------------------------------------------------------
(* Result files: the commands that write them, the CLI process around a    *)
(* monitor thread, and the result manager that reads them.                 *)

\* Commands that write results in one behaviour.
MaxCommands == 1

\* Directories under base_path.
BenchmarksDir == "results/benchmarks"
MonitoringDir == "results/monitoring"
LogDir == "src/benchmarking/logs"

\* json.load of a file raises.
Malformed == [json |-> "malformed"]

\* What run_latency saves: metadata, configuration, summary and requests.
latency_results(successful) ==
    [json |-> "dict",
     top |-> [metadata |-> [benchmark_name |-> "ollama_latency"],
              configuration |-> [num_requests |-> 3],
              summary |-> IF successful > 0
                          THEN [total_requests |-> 3, successful_requests |-> successful,
                                failed_requests |-> 3 - successful,
                                avg_latency |-> 2, throughput_rps |-> 1]
                          ELSE [total_requests |-> 3, successful_requests |-> 0,
                                failed_requests |-> 3],
              requests |-> successful]]

\* A result with its metrics at the top level.
flat_results ==
    [json |-> "dict",
     top |-> [avg_latency |-> 2, successful_requests |-> 3,
              total_requests |-> 3, throughput |-> 1]]

\* What BaseMonitor.save writes: the list of samples.
monitor_results(data) == [json |-> "list", items |-> data]

\* Path.glob("*.json")
glob_json(name) ==
    Len(name) >= 5 /\ SubSeq(name, Len(name) - 4, Len(name)) = ".json"

\* Path.glob(f"*_{job_id}_*.json")
glob_job(name, job_id) ==
    LET mid == "_" \o job_id \o "_"
        last == Len(name) - 5 - Len(mid) + 1
    IN  /\ glob_json(name)
        /\ \E i \in 1..last : SubSeq(name, i, i + Len(mid) - 1) = mid

\* The names in a directory.
listdir(files, dir) == {path[2] : path \in {q \in DOMAIN files : q[1] = dir}}

\* get_job_summary, a benchmark file: the metrics found at the top level
\* of the parsed data; none when the file does not parse.
benchmark_metrics(content) ==
    IF content.json = "dict"
    THEN [k \in {"avg_latency", "successful_requests", "throughput"} \cap DOMAIN content.top
            |-> content.top[k]]
    ELSE <<>>

\* get_job_summary, a monitor file: the number of samples and the cpu
\* values of the last five; none when the file does not parse or holds no
\* sample.
monitor_metrics(content) ==
    IF content.json = "list" /\ content.items # <<>>
    THEN LET n == Len(content.items)
             recent == SubSeq(content.items, IF n > 5 THEN n - 4 ELSE 1, n)
         IN  [samples |-> n,
              cpu_vals |-> [i \in 1..Len(recent) |-> recent[i].system.cpu_usage]]
    ELSE <<>>

\* get_job_summary: the files of both directories that match the job id,
\* and what is printed below each name.
get_job_summary(files, job_id) ==
    LET benchmark_files == {n \in listdir(files, BenchmarksDir) : glob_job(n, job_id)}
        monitor_files == {n \in listdir(files, MonitoringDir) : glob_job(n, job_id)}
    IN  [benchmark_files |-> benchmark_files,
         monitor_files |-> monitor_files,
         benchmark_shown |-> [n \in benchmark_files
                                |-> benchmark_metrics(files[<<BenchmarksDir, n>>])],
         monitor_shown |-> [n \in monitor_files
                              |-> monitor_metrics(files[<<MonitoringDir, n>>])]]

\* list_results: the *.json files of the directories of the type; an
\* error and no file for a type that is neither benchmark nor monitor.
list_results(files, result_type) ==
    IF Truthy(result_type) /\ result_type \notin {"benchmark", "monitor"}
    THEN [error |-> TRUE, listed |-> {}]
    ELSE LET dirs == IF result_type = "benchmark" THEN {BenchmarksDir}
                     ELSE IF result_type = "monitor" THEN {MonitoringDir}
                     ELSE {BenchmarksDir, MonitoringDir}
         IN  [error |-> FALSE,
              listed |-> {path \in DOMAIN files : path[1] \in dirs /\ glob_json(path[2])}]

\* Result files that may be stored before the first command.
StoredResults ==
    Put(Put(Put(Put(<<>>,
        <<BenchmarksDir, "ollama_latency_101_0.json">>, flat_results),
        <<BenchmarksDir, "ollama_streaming_101_0.json">>, Malformed),
        <<BenchmarksDir, "ollama_latency_102_0.json">>, latency_results(3)),
        <<MonitoringDir, "ollama_monitor_102_0.json">>, Malformed)

\* `monitor start`: start_monitor names the output file, starts the
\* daemon thread and returns to the CLI process.
MonitorStartCommand ==
    /\ Len(tasks.launched) < MaxCommands
    /\ \E service_name \in Monitorable, job_id \in JobIds,
          duration \in {MaxDuration}, interval \in {1, MaxInterval} :
         LET node == registry_node(TRUE, file, job_id)
             monitor_id == monitor_id_of(service_name, job_id, now)
             task == [kind |-> "monitor", job_id |-> job_id,
                      output_file |-> <<MonitoringDir, output_file_of(service_name, job_id, now)>>,
                      duration |-> duration, interval |-> interval, start_time |-> now,
                      pc |-> "loop", data |-> <<>>, process |-> "running"]
         IN  /\ Truthy(node)
             /\ tasks' = [tasks EXCEPT
                            !.launched = Append(@, task),
                            !.active_monitors = Put(@, monitor_id, Len(tasks.launched) + 1)]
    /\ UNCHANGED <<now, rs, h, file, ss, sched, trail, ops, budget, procs, reg, mon, probe>>

\* The thread of monitor i, while its process lives: BaseMonitor.start
\* tests the loop condition, then appends a sample and sleeps for the
\* interval, or saves the samples.
MonitorThreadStep(i) ==
    /\ i \in 1..Len(tasks.launched)
    /\ LET task == tasks.launched[i] IN
       /\ task.kind = "monitor" /\ task.process = "running" /\ task.pc = "loop"
       /\ IF sampling(now - task.start_time, task.duration)
          THEN /\ tasks' = [tasks EXCEPT !.launched[i].data =
                              Append(@, [timestamp |-> now,
                                         system |-> [cpu_usage |-> 12, memory_usage |-> 40]])]
               /\ now' = now + task.interval
          ELSE /\ tasks' = [tasks EXCEPT
                              !.launched[i].pc = "saved",
                              !.files = Put(@, task.output_file, monitor_results(task.data))]
               /\ now' = now
    /\ UNCHANGED <<rs, h, file, ss, sched, trail, ops, budget, procs, reg, mon, probe>>

\* main() returns and the process of monitor i exits: a daemon thread
\* that is still in its loop ends with the process.
ProcessExit(i) ==
    /\ i \in 1..Len(tasks.launched)
    /\ tasks.launched[i].kind = "monitor" /\ tasks.launched[i].process = "running"
    /\ tasks' = [tasks EXCEPT
                   !.launched[i].process = "exited",
                   !.launched[i].pc = IF @ = "loop" THEN "killed" ELSE @]
    /\ UNCHANGED <<now, rs, h, file, ss, sched, trail, ops, budget, procs, reg, mon, probe>>

\* `benchmark run`, once _get_job_node has given the node: the log file is
\* named, run() saves its results to it or raises before it has, and the
\* second of the run is over.
RunBenchmarkCommand ==
    /\ Len(tasks.launched) < MaxCommands
    /\ \E benchmark_name \in BenchmarkNames, job_id \in JobIds,
          successful \in {0, 3}, raises \in BOOLEAN :
         LET log_file == <<LogDir, log_file_of(benchmark_name, job_id, now)>>
             task == [kind |-> "benchmark", job_id |-> job_id, output_file |-> log_file,
                      duration |-> 0, interval |-> 0, start_time |-> now,
                      pc |-> IF raises THEN "raised" ELSE "saved",
                      data |-> <<>>, process |-> "exited"]
         IN  tasks' = [tasks EXCEPT
                         !.launched = Append(@, task),
                         !.files = IF raises THEN @
                                   ELSE Put(@, log_file, latency_results(successful))]
    /\ now' = now + 1
    /\ UNCHANGED <<rs, h, file, ss, sched, trail, ops, budget, procs, reg, mon, probe>>

\* `results summary <job_id>`, the one result manager command of the
\* behaviour.
SummaryCommand ==
    /\ trail = <<>>
    /\ \E job_id \in JobIds \cup {"10"} :
         trail' = Append(trail, [op |-> "get_job_summary", job_id |-> job_id,
                                 files |-> tasks.files,
                                 ret |-> get_job_summary(tasks.files, job_id)])
    /\ UNCHANGED <<now, rs, h, file, ss, sched, ops, budget, procs, reg, mon, probe, tasks>>

\* `results list [--type <type>]`, the one result manager command of the
\* behaviour.
ListCommand ==
    /\ trail = <<>>
    /\ \E result_type \in {None, "benchmark", "monitor", "service"} :
         trail' = Append(trail, [op |-> "list_results", job_id |-> result_type,
                                 files |-> tasks.files,
                                 ret |-> list_results(tasks.files, result_type)])
    /\ UNCHANGED <<now, rs, h, file, ss, sched, ops, budget, procs, reg, mon, probe, tasks>>

InitResults ==
    /\ now = 1
    /\ rs = IdleResolver
    /\ h = NoHistory
    /\ budget = 0
    /\ file = LaunchFile
    /\ ss = IdleStart
    /\ sched = {}
    /\ trail = <<>>
    /\ ops = 0
    /\ procs = IdleProcs
    /\ reg = NoRegistryHistory
    /\ mon = IdleMonitors
    /\ probe = IdleProbe
    /\ \E stored \in SUBSET DOMAIN StoredResults :
         tasks = [NoTasks EXCEPT !.files = [path \in stored |-> StoredResults[path]]]

NextResults ==
    \/ MonitorStartCommand
    \/ \E i \in 1..MaxCommands : MonitorThreadStep(i)
    \/ \E i \in 1..MaxCommands : ProcessExit(i)
    \/ RunBenchmarkCommand
    \/ SummaryCommand
    \/ ListCommand

SpecResults == InitResults /\ [][NextResults]_vars

\* A monitor thread whose process lives is scheduled.
SpecResultsFair ==
    SpecResults /\ \A i \in 1..MaxCommands : WF_vars(MonitorThreadStep(i))

-----------------------------------------------------------------------------

\* C34: a monitor's loop is left no later than its duration plus the time
\* its collections (and oversleeps) took after the start, and consecutive
\* samples are the interval apart, give or take that time.
C34_DurationCutoff ==
    /\ mon.thread.pc = "saved"
          => now - mon.thread.start_time <= mon.thread.duration + mon.thread.lag
    /\ \A i \in 2..Len(mon.thread.data) :
          LET gap == mon.thread.data[i].timestamp - mon.thread.data[i - 1].timestamp
          IN  gap >= mon.thread.interval /\ gap <= mon.thread.interval + mon.thread.lag

\* The job id field of a result file name: what stands between its last
\* two underscores.
Underscores(name) == {i \in 1..Len(name) : SubSeq(name, i, i) = "_"}
Max(S) == CHOOSE x \in S : \A y \in S : y <= x
JobField(name) ==
    IF Cardinality(Underscores(name)) < 2 THEN None
    ELSE LET b == Max(Underscores(name))
             a == Max(Underscores(name) \ {b})
         IN  SubSeq(name, a + 1, b - 1)

\* A parsed result that holds a latency metric, at the top level or in its
\* summary.
HoldsMetrics(content) ==
    /\ content.json = "dict"
    /\ \/ "avg_latency" \in DOMAIN content.top
       \/ /\ "summary" \in DOMAIN content.top
          /\ "avg_latency" \in DOMAIN content.top.summary

\* C32: a job's summary lists exactly the stored benchmark and monitor
\* results whose name carries the job id, shows metrics below every
\* benchmark result that parses and holds some and below every monitor
\* result that parses and holds samples, and shows none below a file that
\* does not parse.
C32_SummaryCoversJob ==
    \A k \in 1..Len(trail) :
        trail[k].op = "get_job_summary" =>
            LET stored == trail[k].files
                ret == trail[k].ret
            IN  /\ ret.benchmark_files =
                      {n \in listdir(stored, BenchmarksDir) : JobField(n) = trail[k].job_id}
                /\ ret.monitor_files =
                      {n \in listdir(stored, MonitoringDir) : JobField(n) = trail[k].job_id}
                /\ \A n \in ret.benchmark_files :
                      LET content == stored[<<BenchmarksDir, n>>]
                      IN  /\ HoldsMetrics(content) => ret.benchmark_shown[n] # <<>>
                          /\ content = Malformed => ret.benchmark_shown[n] = <<>>
                /\ \A n \in ret.monitor_files :
                      LET content == stored[<<MonitoringDir, n>>]
                      IN  /\ (content.json = "list" /\ content.items # <<>>)
                                => ret.monitor_shown[n].samples = Len(content.items)
                          /\ content = Malformed => ret.monitor_shown[n] = <<>>

\* Command i has started a monitor; the monitor of command i has saved its
\* samples.
StartedMonitor(i) ==
    IF i <= Len(tasks.launched) THEN tasks.launched[i].kind = "monitor" ELSE FALSE
Persisted(i) ==
    IF i <= Len(tasks.launched)
    THEN /\ tasks.launched[i].pc = "saved"
         /\ tasks.launched[i].output_file \in DOMAIN tasks.files
    ELSE FALSE

\* C37: every monitor that start_monitor has started comes to have saved
\* its samples to its output file.
C37_EventuallyPersisted ==
    \A i \in 1..MaxCommands : StartedMonitor(i) ~> Persisted(i)

\* C38: the result file a benchmark run has written lies in the directory
\* the result manager reads benchmark results from, is listed by
\* list_results and belongs to the summary of its job.
C38_BenchmarkResultsFound ==
    \A i \in 1..Len(tasks.launched) :
        LET task == tasks.launched[i] IN
        (task.kind = "benchmark" /\ task.pc = "saved") =>
            /\ task.output_file \in DOMAIN tasks.files
            /\ task.output_file[1] = BenchmarksDir
            /\ task.output_file \in list_results(tasks.files, None).listed
            /\ task.output_file \in list_results(tasks.files, "benchmark").listed
            /\ task.output_file[2] \in get_job_summary(tasks.files, task.job_id).benchmark_files

====
